---- MODULE Spec2Model ----
(***************************************************************************)
(* The PHOENIX tracker: the crawl run (02_import_files.py), the statistics *)
(* run (03_compute_statistics.py) and the store they write to, as one      *)
(* state machine.                                                          *)
(*                                                                         *)
(* A file path is the record of its components                             *)
(*   <root>/<PROTECTED|GENERAL>/<Network><Study>/<raw|processed>/          *)
(*   <subject>/<modality>/<name>                                           *)
(* with modality = "" for a file that lies directly in the subject         *)
(* directory.  A subject directory exists exactly when a file lies beneath  *)
(* it (an empty directory and a missing one both contribute no file).      *)
(***************************************************************************)
EXTENDS Bags, FiniteSets, Integers, Sequences, TLC

VARIABLES
    fs,                 \* the regular files on disk (a set of paths)
    study_dirs,         \* <<root, study dir name>>: existing PROTECTED study directories
    subjects,           \* table subjects, in physical row order
    files,              \* table files
    phoenix_file,       \* table phoenix_file (a bag of rows)
    volume_statistics,  \* table volume_statistics (a bag of rows)
    clock,              \* the wall clock read by datetime.now()
    pc,                 \* position of the running script
    params,             \* the work list of the run
    pending,            \* indices of params whose task has not completed
    subject_files,      \* merged batch of the crawl run
    results,            \* merged batch of the statistics run
    queries,            \* the write batch not yet executed
    timestamp,          \* statistics_timestamp of the statistics run
    error,              \* exception that ended the last run ("none" if none)
    failed,             \* queries of the current batch the store rejected
    runs,               \* runs started so far
    changes,            \* changes made to disk or metadata by the environment
    last_crawl,         \* phoenix_file as the last completed crawl left it, if nothing changed since
    report,             \* the payload of the last notification
    command,            \* the slash command the bot handled last
    events,             \* the calls the handler of that command made, in order
    raised,             \* exception that left the handler ("none" if none)
    dag_run,            \* scheduled executions of the DAG so far
    task_state,         \* state of each task instance of the execution
    try_number          \* attempts of each task instance of the execution

\* The variables of the pipeline scripts, of the Slack bot and of the DAG.
pipeline_vars ==
    <<fs, study_dirs, subjects, files, phoenix_file, volume_statistics,
      clock, pc, params, pending, subject_files, results, queries,
      timestamp, error, failed, runs, changes, last_crawl, report>>

slack_vars == <<command, events, raised>>

dag_vars == <<dag_run, task_state, try_number>>

vars == <<pipeline_vars, slack_vars, dag_vars>>

-----------------------------------------------------------------------------
\* Bounds of the model.

MaxRuns == 3

MaxChanges == 1

MaxFiles == 3

\* The words of a slash command's text.
MaxArgs == 4

-----------------------------------------------------------------------------
\* The universe the filesystem and the registry are drawn from.

None == "None"

\* The None that stands for a missing study root, and for a missing timestamp.
NoRoot == [root |-> None, level |-> None, study_dir |-> None]

NoTimestamp == 0

DataRoots == <<"r1", "r2">>

StudyNetwork == [S1 |-> "ProNET", S2 |-> "PRESCIENT"]

Studies == DOMAIN StudyNetwork

SubjectOrder == <<"A", "B">>

Path(root, level, study_dir, stage, subject, modality, name) ==
    [root |-> root, level |-> level, study_dir |-> study_dir, stage |-> stage,
     subject |-> subject, modality |-> modality, name |-> name]

Paths ==
    { Path("r1", "PROTECTED", "PronetS1", "raw", "A", "phone", "f1"),
      Path("r1", "PROTECTED", "PronetS1", "raw", "A", "phone", "f2"),
      Path("r1", "PROTECTED", "PronetS1", "processed", "A", "phone", "f3"),
      Path("r1", "GENERAL", "PrescientS2", "processed", "B", "mri", "f4"),
      Path("r1", "PROTECTED", "PronetS1", "raw", "A", "", "f5"),
      Path("r1", "PROTECTED", "PrescientS2", "raw", "A", "mri", "f6"),
      Path("r2", "PROTECTED", "PronetS1", "raw", "A", "phone", "f1") }

SubjectTables ==
    { << [study_id |-> "S1", subject_id |-> "A"],
         [study_id |-> "S2", subject_id |-> "B"] >>,
      << [study_id |-> "S1", subject_id |-> "A"],
         [study_id |-> "S2", subject_id |-> "A"],
         [study_id |-> "S2", subject_id |-> "B"] >> }

StudyDirConfigs ==
    { { <<"r1", "PronetS1">>, <<"r1", "PrescientS2">> },
      { <<"r1", "PronetS1">> },
      { <<"r2", "PronetS1">>, <<"r1", "PrescientS2">> } }

\* A PROTECTED file lies inside an existing PROTECTED study directory.
Consistent(f, dirs) ==
    f.level = "PROTECTED" => <<f.root, f.study_dir>> \in dirs

TagValues == {"sensor", "activity", "sensor_activity"}

-----------------------------------------------------------------------------
\* Sequences and bags.

RECURSIVE SeqOf(_)
SeqOf(S) ==
    IF S = {} THEN <<>>
    ELSE LET x == CHOOSE y \in S : TRUE IN <<x>> \o SeqOf(S \ {x})

RECURSIVE Flatten(_)
Flatten(ss) ==
    IF ss = <<>> THEN <<>> ELSE Head(ss) \o Flatten(Tail(ss))

Range(s) == { s[i] : i \in DOMAIN s }

\* The given rows of a table, as a bag.
Select(tbl, rows) == [ r \in rows |-> tbl[r] ]

-----------------------------------------------------------------------------
\* pipeline/data.py

\* db.fetch_record: the first column of the first row, None without a row.
get_subject_study_id(subject_id) ==
    LET rows == SelectSeq(subjects, LAMBDA r : r.subject_id = subject_id)
    IN  IF rows = <<>> THEN None ELSE rows[1].study_id

get_study_network(study_id) ==
    IF study_id \in DOMAIN StudyNetwork THEN StudyNetwork[study_id] ELSE None

\* network_id.lower().capitalize()
SentenceCase(network_id) ==
    CASE network_id = "ProNET" -> "Pronet"
      [] network_id = "PRESCIENT" -> "Prescient"

\* f"{network_id}{study_id}"
StudyDirName(network_id, study_id) ==
    CASE network_id = "Pronet" /\ study_id = "S1" -> "PronetS1"
      [] network_id = "Pronet" /\ study_id = "S2" -> "PronetS2"
      [] network_id = "Prescient" /\ study_id = "S1" -> "PrescientS1"
      [] network_id = "Prescient" /\ study_id = "S2" -> "PrescientS2"

\* The first data root that holds PROTECTED/<Network><Study>, None without one.
CorrectRoot(study_dir) ==
    LET found == SelectSeq(DataRoots, LAMBDA root : <<root, study_dir>> \in study_dirs)
    IN  IF found = <<>> THEN None ELSE found[1]

get_study_roots(study_id, protected) ==
    LET study_dir == StudyDirName(SentenceCase(get_study_network(study_id)), study_id)
        correct_root == CorrectRoot(study_dir)
    IN  IF correct_root = None THEN NoRoot
        ELSE [root |-> correct_root,
              level |-> IF protected THEN "PROTECTED" ELSE "GENERAL",
              study_dir |-> study_dir]

\* ORDER BY subject_id, one entry per row of subjects.
get_all_subjects ==
    Flatten([ i \in DOMAIN SubjectOrder |->
                SelectSeq([ j \in DOMAIN subjects |-> subjects[j].subject_id ],
                          LAMBDA s : s = SubjectOrder[i]) ])

-----------------------------------------------------------------------------
\* pipeline/crawler/02_import_files.py

\* The loops "for is_protected in [True, False]: for is_raw in [True, False]".
Combinations ==
    << [is_protected |-> TRUE, is_raw |-> TRUE],
       [is_protected |-> TRUE, is_raw |-> FALSE],
       [is_protected |-> FALSE, is_raw |-> TRUE],
       [is_protected |-> FALSE, is_raw |-> FALSE] >>

\* The files beneath a subject directory.
Beneath(study_root, stage, subject_id) ==
    { f \in fs : /\ f.root = study_root.root
                 /\ f.level = study_root.level
                 /\ f.study_dir = study_root.study_dir
                 /\ f.stage = stage
                 /\ f.subject = subject_id }

\* File(file_path=path, with_hash=False): the path and the size on disk.
File(path) ==
    [file_path |-> path, file_size_mb |-> IF path.name \in {"f2", "f4"} THEN 2 ELSE 1]

\* Mutant: the two flags are stored in each other's column.
PhoenixFile_flags_swapped(study_id, subject_id, path, is_protected, is_raw, modality, now) ==
    [study_id |-> study_id, subject_id |-> subject_id, file_path |-> path,
     is_raw |-> is_protected, is_protected |-> is_raw, modality |-> modality,
     extracted_timestamp |-> now, metadata |-> {}]

PhoenixFile(study_id, subject_id, path, is_protected, is_raw, modality, now) ==
    [study_id |-> study_id, subject_id |-> subject_id, file_path |-> path,
     is_raw |-> is_raw, is_protected |-> is_protected, modality |-> modality,
     extracted_timestamp |-> now, metadata |-> {}]

parse_subject_files_by_modality_root(subject_id, study_id, inside, modality, is_protected, is_raw, now) ==
    SeqOf({ <<File(path),
              PhoenixFile(study_id, subject_id, path, is_protected, is_raw,
                          modality, now)>> :
            path \in { f \in inside : f.modality = modality } })

\* Mutant: a subject without a study raises ValueError.
parse_subject_files_by_type_value_error(subject_id, is_protected, is_raw, now) ==
    LET study_id == get_subject_study_id(subject_id)
        study_root == get_study_roots(study_id, is_protected)
        inside == Beneath(study_root, IF is_raw THEN "raw" ELSE "processed", subject_id)
        modalities == SeqOf({ f.modality : f \in { g \in inside : g.modality # "" } })
    IN  IF study_id = None THEN [raises |-> "ValueError", files |-> <<>>]
        ELSE IF study_root = NoRoot THEN [raises |-> "TypeError", files |-> <<>>]
        ELSE IF inside = {} THEN [raises |-> "FileNotFoundError", files |-> <<>>]
        ELSE [raises |-> "none",
              files |-> Flatten([ i \in DOMAIN modalities |->
                          parse_subject_files_by_modality_root(
                              subject_id, study_id, inside, modalities[i],
                              is_protected, is_raw, now) ])]

\* The outcome of a call: the exception it raises ("none" if it returns) and
\* the list it returns.
parse_subject_files_by_type(subject_id, is_protected, is_raw, now) ==
    LET study_id == get_subject_study_id(subject_id)
        study_root == get_study_roots(study_id, is_protected)
        inside == Beneath(study_root, IF is_raw THEN "raw" ELSE "processed", subject_id)
        modalities == SeqOf({ f.modality : f \in { g \in inside : g.modality # "" } })
    IN  IF study_id = None THEN [raises |-> "FileNotFoundError", files |-> <<>>]
        ELSE IF study_root = NoRoot THEN [raises |-> "TypeError", files |-> <<>>]
        ELSE IF inside = {} THEN [raises |-> "FileNotFoundError", files |-> <<>>]
        ELSE [raises |-> "none",
              files |-> Flatten([ i \in DOMAIN modalities |->
                          parse_subject_files_by_modality_root(
                              subject_id, study_id, inside, modalities[i],
                              is_protected, is_raw, now) ])]

\* The combinations are tried in order; FileNotFoundError is caught, any
\* other exception leaves the function.
RECURSIVE ParseCombinations(_, _, _, _)
ParseCombinations(subject_id, todo, acc, now) ==
    IF todo = <<>> THEN [raises |-> "none", files |-> acc]
    ELSE LET c == Head(todo)
             r == parse_subject_files_by_type(subject_id, c.is_protected, c.is_raw, now)
         IN  IF r.raises \in {"none", "FileNotFoundError"}
             THEN ParseCombinations(subject_id, Tail(todo), acc \o r.files, now)
             ELSE [raises |-> r.raises, files |-> <<>>]

parse_subject_files(subject_id, now) ==
    ParseCombinations(subject_id, Combinations, <<>>, now)

-----------------------------------------------------------------------------
\* The store: pipeline/models and the statements the batch executes.
\* Executing a statement yields the table it leaves and whether it succeeded.

\* files(file_path PRIMARY KEY, ...): insert, or refresh the row of the path.
File_to_sql(tbl, file) ==
    [ok |-> TRUE,
     table |-> { r \in tbl : r.file_path # file.file_path } \cup {file}]

\* FOREIGN KEY (study_id, subject_id) REFERENCES subjects,
\* FOREIGN KEY (file_path) REFERENCES files
PhoenixFileReferencesHold(row) ==
    /\ \E i \in DOMAIN subjects :
          subjects[i].study_id = row.study_id /\ subjects[i].subject_id = row.subject_id
    /\ \E f \in files : f.file_path = row.file_path

\* Mutant: a plain INSERT into a table without the primary key.
PhoenixFile_to_sql_insert_only(tbl, row) ==
    IF ~PhoenixFileReferencesHold(row) THEN [ok |-> FALSE, table |-> tbl]
    ELSE [ok |-> TRUE, table |-> tbl (+) SetToBag({row})]

\* Mutant: ON CONFLICT (file_path) DO NOTHING.
PhoenixFile_to_sql_do_nothing(tbl, row) ==
    IF ~PhoenixFileReferencesHold(row) THEN [ok |-> FALSE, table |-> tbl]
    ELSE IF \E r \in DOMAIN tbl : r.file_path = row.file_path
    THEN [ok |-> TRUE, table |-> tbl]
    ELSE [ok |-> TRUE, table |-> tbl (+) SetToBag({row})]

\* Mutant: DO UPDATE SET without metadata = excluded.metadata.
PhoenixFile_to_sql_keep_metadata(tbl, row) ==
    IF ~PhoenixFileReferencesHold(row) THEN [ok |-> FALSE, table |-> tbl]
    ELSE LET old == { r \in DOMAIN tbl : r.file_path = row.file_path }
             new == IF old = {} THEN row
                    ELSE [row EXCEPT !.metadata = (CHOOSE r \in old : TRUE).metadata]
         IN  [ok |-> TRUE,
              table |-> Select(tbl, DOMAIN tbl \ old) (+) SetToBag({new})]

\* Mutant: the table is truncated before the row is inserted.
PhoenixFile_to_sql_truncate(tbl, row) ==
    IF ~PhoenixFileReferencesHold(row) THEN [ok |-> FALSE, table |-> tbl]
    ELSE [ok |-> TRUE, table |-> SetToBag({row})]

\* INSERT ... ON CONFLICT (file_path) DO UPDATE SET <every other column>
PhoenixFile_to_sql(tbl, row) ==
    IF ~PhoenixFileReferencesHold(row) THEN [ok |-> FALSE, table |-> tbl]
    ELSE [ok |-> TRUE,
          table |-> Select(tbl, { r \in DOMAIN tbl : r.file_path # row.file_path })
                        (+) SetToBag({row})]

\* PRIMARY KEY (study_id, subject_id, is_raw, is_protected, modality,
\*              statistics_timestamp)
VolumeStatisticsKey(r) ==
    <<r.study_id, r.subject_id, r.is_raw, r.is_protected, r.modality,
      r.statistics_timestamp>>

\* Mutant: the insert replaces the row of the same (study, subject, flags,
\* modality) whatever its timestamp.
VolumeStatistics_to_sql_replace_generation(tbl, row) ==
    [ok |-> TRUE,
     table |-> Select(tbl, { r \in DOMAIN tbl :
                              [r EXCEPT !.statistics_timestamp = NoTimestamp,
                                        !.files_count = 0, !.files_size_mb = 0]
                              # [row EXCEPT !.statistics_timestamp = NoTimestamp,
                                            !.files_count = 0, !.files_size_mb = 0] })
               (+) SetToBag({row})]

\* Mutant: the table has no primary key.
VolumeStatistics_to_sql_no_key(tbl, row) ==
    [ok |-> TRUE, table |-> tbl (+) SetToBag({row})]

\* A plain INSERT: the primary key rejects a second row of the same key.
VolumeStatistics_to_sql(tbl, row) ==
    IF \E r \in DOMAIN tbl : VolumeStatisticsKey(r) = VolumeStatisticsKey(row)
    THEN [ok |-> FALSE, table |-> tbl]
    ELSE [ok |-> TRUE, table |-> tbl (+) SetToBag({row})]

VolumeStatistics(result, statistics_timestamp) ==
    [study_id |-> result.study_id, subject_id |-> result.subject_id,
     is_raw |-> result.is_raw, is_protected |-> result.is_protected,
     modality |-> result.modality, files_count |-> result.files_count,
     files_size_mb |-> result.files_size_mb,
     statistics_timestamp |-> statistics_timestamp]

-----------------------------------------------------------------------------
\* pipeline/data.py: the queries of the statistics run.

\* Strings as the LIKE operator sees them.
Chars(str) ==
    CASE str = "sensor" -> <<"s", "e", "n", "s", "o", "r">>
      [] str = "activity" -> <<"a", "c", "t", "i", "v", "i", "t", "y">>
      [] str = "sensor_activity" ->
            <<"s", "e", "n", "s", "o", "r", "_", "a", "c", "t", "i", "v", "i", "t", "y">>
      [] str = "UPENN" -> <<"U", "P", "E", "N", "N">>
      [] str = "MGB" -> <<"M", "G", "B">>

\* value LIKE '%pattern%'
Like(value, pattern) ==
    LET v == Chars(value)
        p == Chars(pattern)
    IN  \E i \in 0..(Len(v) - Len(p)) : SubSeq(v, i + 1, i + Len(p)) = p

\* metadata->>'key', None when the key is absent.
JsonText(metadata, key) ==
    IF \E kv \in metadata : kv[1] = key
    THEN (CHOOSE kv \in metadata : kv[1] = key)[2]
    ELSE None

\* phoenix_file LEFT JOIN files USING (file_path); a missing size is skipped
\* by the sum.
FileSizeMb(path) ==
    IF \E f \in files : f.file_path = path
    THEN (CHOOSE f \in files : f.file_path = path).file_size_mb
    ELSE 0

RECURSIVE SizeSum(_)
SizeSum(df) ==
    IF DOMAIN df = {} THEN 0
    ELSE LET r == CHOOSE x \in DOMAIN df : TRUE
         IN  df[r] * FileSizeMb(r.file_path)
               + SizeSum([ x \in DOMAIN df \ {r} |-> df[x] ])

get_subject_modalities(subject_id) ==
    LET study_id == get_subject_study_id(subject_id)
    IN  SeqOf({ r.modality : r \in { x \in DOMAIN phoenix_file :
                    x.subject_id = subject_id /\ x.study_id = study_id } })

get_subject_modality_files(subject_id, modality) ==
    LET study_id == get_subject_study_id(subject_id)
    IN  Select(phoenix_file, { r \in DOMAIN phoenix_file :
                                 /\ r.subject_id = subject_id
                                 /\ r.study_id = study_id
                                 /\ r.modality = modality })

get_subject_modality_files_by_metadata(subject_id, modality, metadata_key, metadata_value) ==
    LET study_id == get_subject_study_id(subject_id)
    IN  Select(phoenix_file, { r \in DOMAIN phoenix_file :
                                 /\ r.subject_id = subject_id
                                 /\ r.study_id = study_id
                                 /\ r.modality = modality
                                 /\ JsonText(r.metadata, metadata_key) # None
                                 /\ Like(JsonText(r.metadata, metadata_key), metadata_value) })

-----------------------------------------------------------------------------
\* pipeline/crawler/03_compute_statistics.py

Result(subject_id, study_id, modality, is_protected, is_raw, filtered_df) ==
    [subject_id |-> subject_id, study_id |-> study_id, modality |-> modality,
     is_protected |-> is_protected, is_raw |-> is_raw,
     files_count |-> BagCardinality(filtered_df),
     files_size_mb |-> SizeSum(filtered_df)]

sub_types(modality) ==
    IF modality = "phone"
    THEN << <<"mindlamp_type", "sensor">>, <<"mindlamp_type", "activity">> >>
    ELSE IF modality = "surveys"
    THEN << <<"redcap_instance", "UPENN">>, <<"redcap_instance", "MGB">> >>
    ELSE <<>>

\* f"{modality}_{sub_type_value}"
SubTypeModality(modality, sub_type_value) ==
    CASE modality = "phone" /\ sub_type_value = "sensor" -> "phone_sensor"
      [] modality = "phone" /\ sub_type_value = "activity" -> "phone_activity"
      [] modality = "surveys" /\ sub_type_value = "UPENN" -> "surveys_UPENN"
      [] modality = "surveys" /\ sub_type_value = "MGB" -> "surveys_MGB"

SubTypeRows(subject_id, study_id, modality, is_protected, is_raw) ==
    LET types == sub_types(modality)
        Row(sub_type) ==
            LET filtered_df == get_subject_modality_files_by_metadata(
                                   subject_id, modality, sub_type[1], sub_type[2])
            IN  IF filtered_df = EmptyBag THEN <<>>
                ELSE << Result(subject_id, study_id,
                               SubTypeModality(modality, sub_type[2]),
                               is_protected, is_raw, filtered_df) >>
    IN  Flatten([ i \in DOMAIN types |-> Row(types[i]) ])

\* Mutant: the rows of a combination count the files of the whole modality.
CombinationRows_unfiltered(subject_id, study_id, modality, is_protected, is_raw) ==
    LET modality_files_df == get_subject_modality_files(subject_id, modality)
        filtered_df == Select(modality_files_df, { r \in DOMAIN modality_files_df :
                                                     /\ r.is_protected = is_protected
                                                     /\ r.is_raw = is_raw })
    IN  IF filtered_df = EmptyBag THEN <<>>
        ELSE << Result(subject_id, study_id, modality, is_protected, is_raw,
                       modality_files_df) >>
             \o (IF is_protected /\ is_raw
                 THEN SubTypeRows(subject_id, study_id, modality, is_protected, is_raw)
                 ELSE <<>>)

\* Mutant: a row is emitted for a combination without files.
CombinationRows_dense(subject_id, study_id, modality, is_protected, is_raw) ==
    LET modality_files_df == get_subject_modality_files(subject_id, modality)
        filtered_df == Select(modality_files_df, { r \in DOMAIN modality_files_df :
                                                     /\ r.is_protected = is_protected
                                                     /\ r.is_raw = is_raw })
    IN  << Result(subject_id, study_id, modality, is_protected, is_raw,
                  filtered_df) >>
        \o (IF is_protected /\ is_raw
            THEN SubTypeRows(subject_id, study_id, modality, is_protected, is_raw)
            ELSE <<>>)

CombinationRows(subject_id, study_id, modality, is_protected, is_raw) ==
    LET modality_files_df == get_subject_modality_files(subject_id, modality)
        filtered_df == Select(modality_files_df, { r \in DOMAIN modality_files_df :
                                                     /\ r.is_protected = is_protected
                                                     /\ r.is_raw = is_raw })
    IN  IF filtered_df = EmptyBag THEN <<>>
        ELSE << Result(subject_id, study_id, modality, is_protected, is_raw,
                       filtered_df) >>
             \o (IF is_protected /\ is_raw
                 THEN SubTypeRows(subject_id, study_id, modality, is_protected, is_raw)
                 ELSE <<>>)

process_subject(subject_id) ==
    LET study_id == get_subject_study_id(subject_id)
        modalities == get_subject_modalities(subject_id)
    IN  Flatten([ i \in DOMAIN modalities |->
            Flatten([ c \in DOMAIN Combinations |->
                CombinationRows(subject_id, study_id, modalities[i],
                                Combinations[c].is_protected,
                                Combinations[c].is_raw) ]) ])

\* Mutant: the clock is read again for every row.
StatisticsQueries_clock_per_row(rows, now) ==
    [ i \in DOMAIN rows |->
        [table |-> "volume_statistics",
         row |-> VolumeStatistics(rows[i], now + i - 1)] ]

\* One INSERT per result, all with the timestamp read once before the loop.
StatisticsQueries(rows, now) ==
    [ i \in DOMAIN rows |->
        [table |-> "volume_statistics", row |-> VolumeStatistics(rows[i], now)] ]

\* Mutant: the statement of phoenix_file is appended before that of files.
ImportQueries_phoenix_file_first(pairs) ==
    Flatten([ i \in DOMAIN pairs |->
        << [table |-> "phoenix_file", row |-> pairs[i][2]],
           [table |-> "files", row |-> pairs[i][1]] >> ])

\* For every enumerated file, the statement for files and then the statement
\* for phoenix_file.
ImportQueries(pairs) ==
    Flatten([ i \in DOMAIN pairs |->
        << [table |-> "files", row |-> pairs[i][1]],
           [table |-> "phoenix_file", row |-> pairs[i][2]] >> ])

-----------------------------------------------------------------------------
\* pipeline/scripts/send_notification.py

StatisticsTimestamps == { r.statistics_timestamp : r \in DOMAIN volume_statistics }

Max(S) == CHOOSE x \in S : \A y \in S : y <= x

\* SELECT MAX(statistics_timestamp), None on an empty table.
get_most_recent_statistics_timestamp ==
    IF StatisticsTimestamps = {} THEN NoTimestamp ELSE Max(StatisticsTimestamps)

\* Mutant: ... ORDER BY statistics_timestamp ASC LIMIT 1
get_earlier_statistics_timestamp_oldest(threshold_date) ==
    LET earlier == { t \in StatisticsTimestamps : t < threshold_date }
    IN  IF earlier = {} THEN NoTimestamp
        ELSE CHOOSE x \in earlier : \A y \in earlier : x <= y

\* ... WHERE statistics_timestamp < threshold ORDER BY ... DESC LIMIT 1
get_earlier_statistics_timestamp(threshold_date) ==
    LET earlier == { t \in StatisticsTimestamps : t < threshold_date }
    IN  IF earlier = {} THEN NoTimestamp ELSE Max(earlier)

\* SELECT DISTINCT modality FROM phoenix_file
get_all_modalities ==
    SeqOf({ r.modality : r \in DOMAIN phoenix_file })

\* networks = ["ProNET", "PRESCIENT"]
Networks == <<"ProNET", "PRESCIENT">>

\* The partition a modality is reported for.
ReportPartition(modality) ==
    IF modality = "interviews"
    THEN [is_protected |-> FALSE, is_raw |-> FALSE]
    ELSE [is_protected |-> TRUE, is_raw |-> TRUE]

\* volume_statistics LEFT JOIN subjects USING (subject_id, study_id)
\* LEFT JOIN study USING (study_id) WHERE statistics_timestamp = ... AND
\* modality = ... AND study.network_id = ... AND is_raw is ... AND
\* is_protected is ...: a row once for every registration it matches, and
\* once if it matches none.
ReportRows(statistics_timestamp, modality, network) ==
    LET matching == { r \in DOMAIN volume_statistics :
                        /\ r.statistics_timestamp = statistics_timestamp
                        /\ r.modality = modality
                        /\ get_study_network(r.study_id) = network
                        /\ r.is_raw = ReportPartition(modality).is_raw
                        /\ r.is_protected = ReportPartition(modality).is_protected }
        Registrations(r) ==
            Cardinality({ i \in DOMAIN subjects :
                            /\ subjects[i].subject_id = r.subject_id
                            /\ subjects[i].study_id = r.study_id })
    IN  [ r \in matching |->
            volume_statistics[r]
              * (IF Registrations(r) = 0 THEN 1 ELSE Registrations(r)) ]

\* The sum of a column over the joined rows.
RECURSIVE SumFilesCount(_)
SumFilesCount(rows) ==
    IF DOMAIN rows = {} THEN 0
    ELSE LET r == CHOOSE x \in DOMAIN rows : TRUE
         IN  rows[r] * r.files_count
               + SumFilesCount([ x \in DOMAIN rows \ {r} |-> rows[x] ])

RECURSIVE SumFilesSize(_)
SumFilesSize(rows) ==
    IF DOMAIN rows = {} THEN 0
    ELSE LET r == CHOOSE x \in DOMAIN rows : TRUE
         IN  rows[r] * r.files_size_mb
               + SumFilesSize([ x \in DOMAIN rows \ {r} |-> rows[x] ])

\* SELECT SUM(files_count): NULL over no rows, which db.fetch_record hands
\* back as None.
files_sum(statistics_timestamp, modality, network) ==
    LET rows == ReportRows(statistics_timestamp, modality, network)
    IN  IF DOMAIN rows = {} THEN [is_none |-> TRUE, value |-> 0]
        ELSE [is_none |-> FALSE, value |-> SumFilesCount(rows)]

\* SELECT SUM(files_size_mb)
size_sum(statistics_timestamp, modality, network) ==
    LET rows == ReportRows(statistics_timestamp, modality, network)
    IN  IF DOMAIN rows = {} THEN [is_none |-> TRUE, value |-> 0]
        ELSE [is_none |-> FALSE, value |-> SumFilesSize(rows)]

\* The condition that sets issue_detected.
IssueDetected(delta_files, delta_size) ==
    delta_size = 0 \/ delta_files = 0

\* The bullet of a network and a modality; int(None) and float(None) raise
\* TypeError.
ReportEntry(network, modality, latest_timestamp, previous_timestamp) ==
    LET files_sum_current == files_sum(latest_timestamp, modality, network)
        size_sum_current == size_sum(latest_timestamp, modality, network)
        files_sum_previous == files_sum(previous_timestamp, modality, network)
        size_sum_previous == size_sum(previous_timestamp, modality, network)
    IN  IF \/ files_sum_current.is_none
           \/ size_sum_current.is_none
           \/ files_sum_previous.is_none
           \/ size_sum_previous.is_none
        THEN [raises |-> "TypeError", network |-> network, modality |-> modality,
              delta_files |-> 0, delta_size |-> 0]
        ELSE [raises |-> "none", network |-> network, modality |-> modality,
              delta_files |-> files_sum_current.value - files_sum_previous.value,
              delta_size |-> size_sum_current.value - size_sum_previous.value]

\* The payload: the two dates, one bullet per network and modality, and the
\* warning.  An exception of a bullet leaves the function.
construct_slack_blockkit_json(latest_timestamp, previous_timestamp) ==
    LET modalities == get_all_modalities
        entries == { ReportEntry(Networks[n], modalities[m],
                                 latest_timestamp, previous_timestamp) :
                     n \in DOMAIN Networks, m \in DOMAIN modalities }
    IN  IF \E e \in entries : e.raises # "none"
        THEN [raises |-> "TypeError", payload |-> {}]
        ELSE [raises |-> "none",
              payload |-> {[latest_timestamp |-> latest_timestamp,
                            previous_timestamp |-> previous_timestamp,
                            entries |-> entries,
                            issue_detected |->
                                \E e \in entries :
                                    IssueDetected(e.delta_files, e.delta_size)]}]

-----------------------------------------------------------------------------
\* slack/bot.py

Words == {"phone", "bogus", "count", "size", "pronet", "PRESCIENT", "7", "abc"}

RECURSIVE Join(_, _)
Join(words, separator) ==
    IF Len(words) <= 1 THEN words
    ELSE <<Head(words)>> \o separator \o Join(Tail(words), separator)

\* The texts of a command: words separated by one blank or by two.
CommandTexts ==
    { Join(words, separator) :
        words \in UNION { [1..n -> Words] : n \in 0..MaxArgs },
        separator \in { <<" ">>, <<" ", " ">> } }

\* command["text"].split()
split(text) == SelectSeq(text, LAMBDA w : w # " ")

\* int(parts[3])
int(word) ==
    CASE word = "7" -> [raises |-> "none", value |-> 7]
      [] word = "14" -> [raises |-> "none", value |-> 14]
      [] OTHER -> [raises |-> "ValueError", value |-> 0]

modality_colors_map ==
    [actigraphy |-> "skyblue", surveys |-> "lightcoral", mri |-> "lightblue",
     eeg |-> "lightgreen", phone |-> "lightpink", interviews |-> "red"]

\* The plot of a measure; ValueError for a modality without a colour.
PlotFile(modality, network_id, num_days, measure) ==
    IF modality \notin DOMAIN modality_colors_map
    THEN [raises |-> "ValueError", plot_file |-> <<>>]
    ELSE [raises |-> "none",
          plot_file |-> << [modality |-> modality,
                            network_id |-> IF network_id = None THEN "AllNetworks"
                                           ELSE network_id,
                            num_days |-> num_days,
                            measure |-> measure] >>]

plot_modality_count(modality, network_id, num_days) ==
    PlotFile(modality, network_id, num_days, "count")

plot_modality_size(modality, network_id, num_days) ==
    PlotFile(modality, network_id, num_days, "size")

\* The calls a handler makes.
Ack == [call |-> "ack", with |-> <<>>]

Respond(text) == [call |-> "respond", with |-> text]

FilesUpload(plot_file) == [call |-> "files_upload_v2", with |-> plot_file]

Usage == <<"Usage: /plot [modality] [count/size] [network] [num_days]">>

\* The calls of plot_modality_wrapper for a text and the exception that
\* leaves it: only IndexError is caught while the arguments are read.
plot_modality_wrapper_calls(text) ==
    LET parts == split(text)
    IN  IF Len(parts) < 2
        THEN [events |-> <<Ack, Respond(Usage)>>, raised |-> "none"]
        ELSE
        LET modality == parts[1]
            count_size == parts[2]
            given == IF Len(parts) >= 3 THEN parts[3] ELSE None
            num_days == IF Len(parts) >= 4 THEN int(parts[4])
                        ELSE [raises |-> "none", value |-> 14]
            network == CASE given = "pronet" -> "ProNET"
                         [] given = "prescient" -> "PRESCIENT"
                         [] OTHER -> given
            plot == IF count_size = "count"
                    THEN plot_modality_count(modality, network, num_days.value)
                    ELSE plot_modality_size(modality, network, num_days.value)
        IN  IF num_days.raises # "none"
            THEN [events |-> <<Ack>>, raised |-> num_days.raises]
            ELSE IF count_size \notin {"count", "size"}
            THEN [events |-> <<Ack, Respond(Usage)>>, raised |-> "none"]
            ELSE IF plot.raises = "ValueError"
            THEN [events |-> <<Ack, Respond(<<"Error: Invalid modality: ", modality>>)>>,
                  raised |-> "none"]
            ELSE [events |-> <<Ack, FilesUpload(plot.plot_file),
                               Respond(<<"Uploaded plot for ", modality,
                                         " data flow">>)>>,
                  raised |-> "none"]

\* No request is being served.
NoCommand == [command |-> "none", text |-> <<>>]

BotIdle ==
    /\ command = NoCommand
    /\ events = <<>>
    /\ raised = "none"

\* A user sends a slash command; the app dispatches it to its listener.
SlashCommand ==
    /\ command = NoCommand
    /\ \E name \in {"/plot", "/ping"}, text \in CommandTexts :
          command' = [command |-> name, text |-> text]
    /\ UNCHANGED <<pipeline_vars, dag_vars, events, raised>>

plot_modality_wrapper ==
    /\ command.command = "/plot"
    /\ events = <<>>
    /\ events' = plot_modality_wrapper_calls(command.text).events
    /\ raised' = plot_modality_wrapper_calls(command.text).raised
    /\ UNCHANGED <<pipeline_vars, dag_vars, command>>

ping_function ==
    /\ command.command = "/ping"
    /\ events = <<>>
    /\ events' = <<Ack, Respond(<<"pong">> \o command.text)>>
    /\ raised' = "none"
    /\ UNCHANGED <<pipeline_vars, dag_vars, command>>

\* The listener has returned or raised; the request is over.
ListenerReturns ==
    /\ events # <<>>
    /\ command' = NoCommand
    /\ events' = <<>>
    /\ raised' = "none"
    /\ UNCHANGED <<pipeline_vars, dag_vars>>

-----------------------------------------------------------------------------
\* crons/phoenix_tracker_dag.py

retries == 3

TaskIds ==
    {"print_info", "import_metadata", "import_files", "compute_statistics",
     "send_notification"}

set_downstream ==
    { <<"print_info", "import_metadata">>,
      <<"import_metadata", "import_files">>,
      <<"import_files", "compute_statistics">>,
      <<"compute_statistics", "send_notification">> }

Upstream(task_id) == { e[1] : e \in { d \in set_downstream : d[2] = task_id } }

\* schedule="@daily": an execution is created when the one before has ended.
DagRunStart ==
    /\ dag_run < MaxRuns
    /\ \A t \in TaskIds : task_state[t] \notin {"running", "up_for_retry"}
    /\ dag_run = 0 \/ \A t \in TaskIds : task_state[t] # "none"
    /\ dag_run' = dag_run + 1
    /\ task_state' = [t \in TaskIds |-> "none"]
    /\ try_number' = [t \in TaskIds |-> 0]
    /\ UNCHANGED <<pipeline_vars, slack_vars>>

\* Mutant: a task is started once its upstream tasks have ended, however.
TaskStarts_all_done ==
    /\ dag_run > 0
    /\ \E t \in TaskIds :
          /\ task_state[t] \in {"none", "up_for_retry"}
          /\ \A u \in Upstream(t) : task_state[u] \in {"success", "failed"}
          /\ task_state' = [task_state EXCEPT ![t] = "running"]
          /\ try_number' = [try_number EXCEPT ![t] = @ + 1]
    /\ UNCHANGED <<pipeline_vars, slack_vars, dag_run>>

\* The default trigger rule: every upstream task has succeeded.
TaskStarts ==
    /\ dag_run > 0
    /\ \E t \in TaskIds :
          /\ task_state[t] \in {"none", "up_for_retry"}
          /\ \A u \in Upstream(t) : task_state[u] = "success"
          /\ task_state' = [task_state EXCEPT ![t] = "running"]
          /\ try_number' = [try_number EXCEPT ![t] = @ + 1]
    /\ UNCHANGED <<pipeline_vars, slack_vars, dag_run>>

\* The bash command exits with 0.
TaskSucceeds ==
    /\ \E t \in TaskIds :
          /\ task_state[t] = "running"
          /\ task_state' = [task_state EXCEPT ![t] = "success"]
    /\ UNCHANGED <<pipeline_vars, slack_vars, dag_run, try_number>>

\* The bash command exits with another status: "retries": 3.
TaskFails ==
    /\ \E t \in TaskIds :
          /\ task_state[t] = "running"
          /\ task_state' = [task_state EXCEPT ![t] =
                               IF try_number[t] <= retries THEN "up_for_retry"
                               ELSE "failed"]
    /\ UNCHANGED <<pipeline_vars, slack_vars, dag_run, try_number>>

\* A task below a task that did not succeed is not run.
UpstreamFailed ==
    /\ \E t \in TaskIds :
          /\ task_state[t] = "none"
          /\ \E u \in Upstream(t) : task_state[u] \in {"failed", "upstream_failed"}
          /\ task_state' = [task_state EXCEPT ![t] = "upstream_failed"]
    /\ UNCHANGED <<pipeline_vars, slack_vars, dag_run, try_number>>

\* No execution has been scheduled.
DagIdle ==
    /\ dag_run = 0
    /\ task_state = [t \in TaskIds |-> "none"]
    /\ try_number = [t \in TaskIds |-> 0]

-----------------------------------------------------------------------------
\* The initial state: an empty store, a registry and a disk.

Init ==
    /\ study_dirs \in StudyDirConfigs
    /\ subjects \in SubjectTables
    /\ fs \in { S \in SUBSET Paths : /\ Cardinality(S) <= MaxFiles
                                     /\ \A f \in S : Consistent(f, study_dirs) }
    /\ files = {}
    /\ phoenix_file = EmptyBag
    /\ volume_statistics = EmptyBag
    /\ clock = 0
    /\ pc = "idle"
    /\ params = <<>>
    /\ pending = {}
    /\ subject_files = <<>>
    /\ results = <<>>
    /\ queries = <<>>
    /\ timestamp = NoTimestamp
    /\ error = "none"
    /\ failed = 0
    /\ runs = 0
    /\ changes = 0
    /\ last_crawl = {}
    /\ report = {}
    /\ BotIdle
    /\ DagIdle

-----------------------------------------------------------------------------
\* The environment, between runs: files appear and disappear, and file rows
\* are tagged with metadata.

AddFile ==
    /\ pc = "idle"
    /\ changes < MaxChanges
    /\ Cardinality(fs) < MaxFiles
    /\ \E f \in Paths \ fs :
          /\ Consistent(f, study_dirs)
          /\ fs' = fs \cup {f}
    /\ changes' = changes + 1
    /\ last_crawl' = {}
    /\ UNCHANGED <<study_dirs, subjects, files, phoenix_file, volume_statistics,
                   clock, pc, params, pending, subject_files, results, queries,
                   timestamp, error, failed, runs, report,
                   slack_vars, dag_vars>>

RemoveFile ==
    /\ pc = "idle"
    /\ changes < MaxChanges
    /\ \E f \in fs : fs' = fs \ {f}
    /\ changes' = changes + 1
    /\ last_crawl' = {}
    /\ UNCHANGED <<study_dirs, subjects, files, phoenix_file, volume_statistics,
                   clock, pc, params, pending, subject_files, results, queries,
                   timestamp, error, failed, runs, report,
                   slack_vars, dag_vars>>

\* The metadata of the rows of one modality is set from outside the crawl.
Tagged(row, value) ==
    [row EXCEPT !.metadata = IF value = None THEN {} ELSE {<<"mindlamp_type", value>>}]

Enrich ==
    /\ pc = "idle"
    /\ changes < MaxChanges
    /\ LET rows == { r \in DOMAIN phoenix_file : r.modality = "phone" }
       IN  /\ rows # {}
           /\ \E tag \in [rows -> TagValues \cup {None}] :
                 phoenix_file' =
                     [ x \in { IF r \in rows THEN Tagged(r, tag[r]) ELSE r :
                               r \in DOMAIN phoenix_file } |->
                         phoenix_file[CHOOSE r \in DOMAIN phoenix_file :
                             x = IF r \in rows THEN Tagged(r, tag[r]) ELSE r] ]
    /\ changes' = changes + 1
    /\ last_crawl' = {}
    /\ UNCHANGED <<fs, study_dirs, subjects, files, volume_statistics,
                   clock, pc, params, pending, subject_files, results, queries,
                   timestamp, error, failed, runs, report,
                   slack_vars, dag_vars>>

-----------------------------------------------------------------------------
\* The crawl run: import_phoenix_metadata.

CrawlStart ==
    /\ pc = "idle"
    /\ runs < MaxRuns
    /\ pc' = "crawl_fanout"
    /\ runs' = runs + 1
    /\ clock' = clock + 1
    /\ params' = get_all_subjects
    /\ pending' = DOMAIN get_all_subjects
    /\ subject_files' = <<>>
    /\ results' = <<>>
    /\ queries' = <<>>
    /\ error' = "none"
    /\ failed' = 0
    /\ UNCHANGED <<fs, study_dirs, subjects, files, phoenix_file,
                   volume_statistics, timestamp, changes, last_crawl, report,
                   slack_vars, dag_vars>>

\* Mutant: the batch is assigned the result instead of extended with it.
CrawlTaskReturns_last_result ==
    /\ pc = "crawl_fanout"
    /\ \E i \in pending :
          LET result == parse_subject_files(params[i], clock)
          IN  /\ result.raises = "none"
              /\ subject_files' = result.files
              /\ pending' = pending \ {i}
    /\ UNCHANGED <<fs, study_dirs, subjects, files, phoenix_file,
                   volume_statistics, clock, pc, params, results, queries,
                   timestamp, error, failed, runs, changes, last_crawl, report,
                   slack_vars, dag_vars>>

\* A worker returns the list of one subject; the coordinator extends the batch.
CrawlTaskReturns ==
    /\ pc = "crawl_fanout"
    /\ \E i \in pending :
          LET result == parse_subject_files(params[i], clock)
          IN  /\ result.raises = "none"
              /\ subject_files' = subject_files \o result.files
              /\ pending' = pending \ {i}
    /\ UNCHANGED <<fs, study_dirs, subjects, files, phoenix_file,
                   volume_statistics, clock, pc, params, results, queries,
                   timestamp, error, failed, runs, changes, last_crawl, report,
                   slack_vars, dag_vars>>

\* A worker raises: the exception reaches the coordinator through the pool's
\* iterator and ends the run.  A directory may refuse to be listed whatever
\* it holds.
CrawlTaskRaises ==
    /\ pc = "crawl_fanout"
    /\ \E i \in pending, denied \in BOOLEAN :
          LET result == IF denied THEN [raises |-> "PermissionError", files |-> <<>>]
                        ELSE parse_subject_files(params[i], clock)
          IN  /\ result.raises # "none"
              /\ error' = result.raises
    /\ pc' = "idle"
    /\ pending' = {}
    /\ subject_files' = <<>>
    /\ UNCHANGED <<fs, study_dirs, subjects, files, phoenix_file,
                   volume_statistics, clock, params, results, queries,
                   timestamp, failed, runs, changes, last_crawl, report,
                   slack_vars, dag_vars>>

\* Mutant: the batch is built and persisted while tasks are still out.
CrawlBuildQueries_before_fan_in ==
    /\ pc = "crawl_fanout"
    /\ queries' = ImportQueries(subject_files)
    /\ pc' = "crawl_persist"
    /\ UNCHANGED <<fs, study_dirs, subjects, files, phoenix_file,
                   volume_statistics, clock, params, pending, subject_files,
                   results, timestamp, error, failed, runs, changes,
                   last_crawl, report,
                   slack_vars, dag_vars>>

CrawlBuildQueries ==
    /\ pc = "crawl_fanout"
    /\ pending = {}
    /\ queries' = ImportQueries(subject_files)
    /\ pc' = "crawl_persist"
    /\ UNCHANGED <<fs, study_dirs, subjects, files, phoenix_file,
                   volume_statistics, clock, params, pending, subject_files,
                   results, timestamp, error, failed, runs, changes,
                   last_crawl, report,
                   slack_vars, dag_vars>>

-----------------------------------------------------------------------------
\* db.execute_queries: the statements of the batch, one after the other.

Execute(query) ==
    CASE query.table = "files" ->
            LET e == File_to_sql(files, query.row)
            IN  /\ files' = e.table
                /\ failed' = IF e.ok THEN failed ELSE failed + 1
                /\ UNCHANGED <<phoenix_file, volume_statistics>>
      [] query.table = "phoenix_file" ->
            LET e == PhoenixFile_to_sql(phoenix_file, query.row)
            IN  /\ phoenix_file' = e.table
                /\ failed' = IF e.ok THEN failed ELSE failed + 1
                /\ UNCHANGED <<files, volume_statistics>>
      [] query.table = "volume_statistics" ->
            LET e == VolumeStatistics_to_sql(volume_statistics, query.row)
            IN  /\ volume_statistics' = e.table
                /\ failed' = IF e.ok THEN failed ELSE failed + 1
                /\ UNCHANGED <<files, phoenix_file>>

ExecuteQuery ==
    /\ pc \in {"crawl_persist", "statistics_persist", "reconcile"}
    /\ queries # <<>>
    /\ Execute(Head(queries))
    /\ queries' = Tail(queries)
    /\ UNCHANGED <<fs, study_dirs, subjects, clock, pc, params, pending,
                   subject_files, results, timestamp, error, runs, changes,
                   last_crawl, report,
                   slack_vars, dag_vars>>

\* The batch is exhausted and the script ends.
Finish ==
    /\ pc \in {"crawl_persist", "statistics_persist", "reconcile"}
    /\ queries = <<>>
    /\ pc' = "idle"
    /\ last_crawl' = CASE pc = "crawl_persist" -> {phoenix_file}
                        [] pc = "statistics_persist" -> last_crawl
                        [] pc = "reconcile" -> {}
    /\ subject_files' = <<>>
    /\ results' = <<>>
    /\ UNCHANGED <<fs, study_dirs, subjects, files, phoenix_file,
                   volume_statistics, clock, params, pending, queries,
                   timestamp, error, failed, runs, changes, report,
                   slack_vars, dag_vars>>

\* What a crawl run has reported so far: "Found {len(subject_files)} files to
\* import." once the tasks are merged, and the count of failed statements
\* when the batch has been executed.
CrawlLog ==
    IF pc # "crawl_persist" THEN <<>>
    ELSE << [found |-> Len(subject_files)] >>
           \o (IF queries = <<>> THEN << [failed |-> failed] >> ELSE <<>>)

-----------------------------------------------------------------------------
\* The statistics run: compute_statistics.

StatisticsStart ==
    /\ pc = "idle"
    /\ runs < MaxRuns
    /\ pc' = "statistics_fanout"
    /\ runs' = runs + 1
    /\ clock' = clock + 1
    /\ params' = get_all_subjects
    /\ pending' = DOMAIN get_all_subjects
    /\ subject_files' = <<>>
    /\ results' = <<>>
    /\ queries' = <<>>
    /\ timestamp' = NoTimestamp
    /\ error' = "none"
    /\ failed' = 0
    /\ UNCHANGED <<fs, study_dirs, subjects, files, phoenix_file,
                   volume_statistics, changes, last_crawl, report,
                   slack_vars, dag_vars>>

StatisticsTaskReturns ==
    /\ pc = "statistics_fanout"
    /\ \E i \in pending :
          /\ results' = results \o process_subject(params[i])
          /\ pending' = pending \ {i}
    /\ UNCHANGED <<fs, study_dirs, subjects, files, phoenix_file,
                   volume_statistics, clock, pc, params, subject_files, queries,
                   timestamp, error, failed, runs, changes, last_crawl, report,
                   slack_vars, dag_vars>>

\* timestamp = datetime.now(), then one statement per result.
StatisticsBuildQueries ==
    /\ pc = "statistics_fanout"
    /\ pending = {}
    /\ timestamp' = clock
    /\ queries' = StatisticsQueries(results, clock)
    /\ pc' = "statistics_persist"
    /\ UNCHANGED <<fs, study_dirs, subjects, files, phoenix_file,
                   volume_statistics, clock, params, pending, subject_files,
                   results, error, failed, runs, changes, last_crawl, report,
                   slack_vars, dag_vars>>

-----------------------------------------------------------------------------
\* The notification run: send_slack_notification reads the two most recent
\* generations; datetime.fromisoformat(None) raises when one is missing.

send_slack_notification ==
    /\ pc = "idle"
    /\ runs < MaxRuns
    /\ runs' = runs + 1
    /\ clock' = clock + 1
    /\ LET latest_timestamp == get_most_recent_statistics_timestamp
           previous_timestamp == get_earlier_statistics_timestamp(latest_timestamp)
       IN  IF latest_timestamp = NoTimestamp \/ previous_timestamp = NoTimestamp
           THEN error' = "TypeError" /\ UNCHANGED report
           ELSE LET slack_payload == construct_slack_blockkit_json(
                                         latest_timestamp, previous_timestamp)
                IN  IF slack_payload.raises # "none"
                    THEN error' = slack_payload.raises /\ UNCHANGED report
                    ELSE /\ error' = "none"
                         /\ report' = slack_payload.payload
    /\ UNCHANGED <<fs, study_dirs, subjects, files, phoenix_file,
                   volume_statistics, pc, params, pending, subject_files,
                   results, queries, timestamp, failed, changes, last_crawl,
                   slack_vars, dag_vars>>

-----------------------------------------------------------------------------

Next ==
    \/ AddFile
    \/ RemoveFile
    \/ Enrich
    \/ CrawlStart
    \/ CrawlTaskReturns
    \/ CrawlTaskRaises
    \/ CrawlBuildQueries
    \/ ExecuteQuery
    \/ Finish
    \/ StatisticsStart
    \/ StatisticsTaskReturns
    \/ StatisticsBuildQueries
    \/ send_slack_notification

Spec == Init /\ [][Next]_vars

-----------------------------------------------------------------------------
\* The reconciler on its own: the two statements of one (File, PhoenixFile)
\* pair, for a path the store already holds and any classification a
\* PhoenixFile can be built with, executed as a batch between the runs.

Reclassify ==
    /\ pc = "idle"
    /\ changes < MaxChanges
    /\ \E path \in { r.file_path : r \in DOMAIN phoenix_file },
          i \in DOMAIN subjects,
          modality \in {"phone", "mri"},
          c \in Range(Combinations) :
          queries' = ImportQueries(
              << <<File(path),
                   PhoenixFile(subjects[i].study_id, subjects[i].subject_id, path,
                               c.is_protected, c.is_raw, modality, clock)>> >>)
    /\ pc' = "reconcile"
    /\ changes' = changes + 1
    /\ failed' = 0
    /\ error' = "none"
    /\ UNCHANGED <<fs, study_dirs, subjects, files, phoenix_file,
                   volume_statistics, clock, params, pending, subject_files,
                   results, timestamp, runs, last_crawl, report,
                   slack_vars, dag_vars>>

\* The steps that write phoenix_file or change what a crawl finds.
NextReconciler ==
    \/ AddFile
    \/ RemoveFile
    \/ CrawlStart
    \/ CrawlTaskReturns
    \/ CrawlTaskRaises
    \/ CrawlBuildQueries
    \/ ExecuteQuery
    \/ Finish
    \/ Reclassify

\* One registry and one layout of the data roots are enough here: the
\* statement does not read the disk.
InitReconciler ==
    /\ Init
    /\ Len(subjects) = Cardinality(Studies)
    /\ \A f \in Paths : f.root = DataRoots[1] => Consistent(f, study_dirs)

SpecReconciler == InitReconciler /\ [][NextReconciler]_vars

-----------------------------------------------------------------------------
\* The crawl over a registry that changes under it: the subjects are listed,
\* and rows of subjects that nothing references are gone by the time the
\* tasks look their study up.

CrawlStartStale ==
    /\ pc = "idle"
    /\ runs < MaxRuns
    /\ pc' = "crawl_fanout"
    /\ runs' = runs + 1
    /\ clock' = clock + 1
    /\ params' = get_all_subjects
    /\ pending' = DOMAIN get_all_subjects
    /\ \E gone \in SUBSET { i \in DOMAIN subjects :
                              \A r \in DOMAIN phoenix_file :
                                  r.subject_id # subjects[i].subject_id } :
          subjects' = SelectSeq(subjects,
                          LAMBDA row : \A i \in gone : subjects[i] # row)
    /\ subject_files' = <<>>
    /\ results' = <<>>
    /\ queries' = <<>>
    /\ error' = "none"
    /\ failed' = 0
    /\ UNCHANGED <<fs, study_dirs, files, phoenix_file,
                   volume_statistics, timestamp, changes, last_crawl, report,
                   slack_vars, dag_vars>>

NextStale ==
    \/ AddFile
    \/ CrawlStartStale
    \/ CrawlTaskReturns
    \/ CrawlTaskRaises
    \/ CrawlBuildQueries
    \/ ExecuteQuery
    \/ Finish

\* Every study directory is in the first data root.
InitStale ==
    /\ Init
    /\ \A f \in Paths : f.root = DataRoots[1] => Consistent(f, study_dirs)

SpecStale == InitStale /\ [][NextStale]_vars

-----------------------------------------------------------------------------
\* Two batches of the reconciler at once: the store executes one statement at
\* a time, so the statements of the two batches reach it in an interleaving
\* that keeps the order of each batch.

RECURSIVE Interleavings(_, _)
Interleavings(a, b) ==
    IF a = <<>> THEN {b}
    ELSE IF b = <<>> THEN {a}
    ELSE { <<Head(a)>> \o x : x \in Interleavings(Tail(a), b) }
           \cup { <<Head(b)>> \o x : x \in Interleavings(a, Tail(b)) }

\* The pairs a crawl task enumerates for the subjects of a set.
SubjectsBatch(ids, now) ==
    LET list == SelectSeq(get_all_subjects, LAMBDA s : s \in ids)
    IN  Flatten([ i \in DOMAIN list |-> parse_subject_files(list[i], now).files ])

ConcurrentReconcile ==
    /\ pc = "idle"
    /\ runs < MaxRuns
    /\ runs' = runs + 1
    /\ clock' = clock + 1
    /\ \A s \in Range(get_all_subjects) :
          parse_subject_files(s, clock + 1).raises = "none"
    /\ \E first \in SUBSET Range(get_all_subjects) :
          LET second == Range(get_all_subjects) \ first
          IN  /\ first # {}
              /\ second # {}
              /\ subject_files' = SubjectsBatch(first, clock + 1)
                                    \o SubjectsBatch(second, clock + 1)
              /\ queries' \in Interleavings(
                                 ImportQueries(SubjectsBatch(first, clock + 1)),
                                 ImportQueries(SubjectsBatch(second, clock + 1)))
    /\ pc' = "reconcile"
    /\ params' = get_all_subjects
    /\ pending' = {}
    /\ results' = <<>>
    /\ error' = "none"
    /\ failed' = 0
    /\ last_crawl' = {}
    /\ UNCHANGED <<fs, study_dirs, subjects, files, phoenix_file,
                   volume_statistics, timestamp, changes, report,
                   slack_vars, dag_vars>>

NextConcurrent ==
    \/ AddFile
    \/ RemoveFile
    \/ ConcurrentReconcile
    \/ ExecuteQuery
    \/ Finish

SpecConcurrent == InitStale /\ [][NextConcurrent]_vars

-----------------------------------------------------------------------------
\* A crawl that is killed and started again by the orchestrator (retries in
\* default_args).  What the batch has written so far stays in the store.

Interrupt ==
    /\ pc \in {"crawl_fanout", "crawl_persist"}
    /\ changes < MaxChanges
    /\ changes' = changes + 1
    /\ pc' = "idle"
    /\ error' = "Interrupted"
    /\ pending' = {}
    /\ subject_files' = <<>>
    /\ queries' = <<>>
    /\ last_crawl' = {}
    /\ UNCHANGED <<fs, study_dirs, subjects, files, phoenix_file,
                   volume_statistics, clock, params, results, timestamp,
                   failed, runs, report,
                   slack_vars, dag_vars>>

NextRetry ==
    \/ CrawlStart
    \/ CrawlTaskReturns
    \/ CrawlTaskRaises
    \/ CrawlBuildQueries
    \/ ExecuteQuery
    \/ Finish
    \/ Interrupt

SpecRetry == Init /\ [][NextRetry]_vars

-----------------------------------------------------------------------------
\* The notification over a store that holds two generations.  The store is
\* the one two rounds of crawl and statistics leave: every file of the first
\* round is a file of the second, the first generation counts the files of
\* the first round and the second generation those of the second.

\* The partitions that hold files, and the names of the files.
ReportPartitions ==
    { [study_id |-> "S1", subject_id |-> "A", study_dir |-> "PronetS1",
       modality |-> "phone", is_protected |-> TRUE, is_raw |-> TRUE],
      [study_id |-> "S2", subject_id |-> "B", study_dir |-> "PrescientS2",
       modality |-> "phone", is_protected |-> TRUE, is_raw |-> TRUE],
      [study_id |-> "S1", subject_id |-> "A", study_dir |-> "PronetS1",
       modality |-> "phone", is_protected |-> TRUE, is_raw |-> FALSE],
      [study_id |-> "S2", subject_id |-> "B", study_dir |-> "PrescientS2",
       modality |-> "mri", is_protected |-> TRUE, is_raw |-> TRUE] }

ReportFileNames == {"f1", "f2"}

PartitionPath(k, name) ==
    Path(DataRoots[1], IF k.is_protected THEN "PROTECTED" ELSE "GENERAL",
         k.study_dir, IF k.is_raw THEN "raw" ELSE "processed",
         k.subject_id, k.modality, name)

\* The rows a statistics run at a time writes for a set of files.
GenerationOf(round, statistics_timestamp) ==
    LET Df(k) == SetToBag({ PhoenixFile(k.study_id, k.subject_id,
                                        PartitionPath(k, x[2]), k.is_protected,
                                        k.is_raw, k.modality, NoTimestamp) :
                            x \in { y \in round : y[1] = k } })
    IN  { VolumeStatistics(Result(k.subject_id, k.study_id, k.modality,
                                  k.is_protected, k.is_raw, Df(k)),
                           statistics_timestamp) :
          k \in { y[1] : y \in round } }

InitReport ==
    /\ study_dirs = { <<DataRoots[1], k.study_dir>> : k \in ReportPartitions }
    /\ subjects = << [study_id |-> "S1", subject_id |-> "A"],
                     [study_id |-> "S2", subject_id |-> "B"] >>
    /\ \E second \in SUBSET (ReportPartitions \X ReportFileNames) :
          \E first \in SUBSET second :
             /\ fs = { PartitionPath(x[1], x[2]) : x \in second }
             /\ files = { File(PartitionPath(x[1], x[2])) : x \in second }
             /\ phoenix_file =
                   SetToBag({ PhoenixFile(x[1].study_id, x[1].subject_id,
                                          PartitionPath(x[1], x[2]),
                                          x[1].is_protected, x[1].is_raw,
                                          x[1].modality, 3) : x \in second })
             /\ volume_statistics =
                   SetToBag(GenerationOf(first, 2) \cup GenerationOf(second, 4))
    /\ clock = 4
    /\ pc = "idle"
    /\ params = <<>>
    /\ pending = {}
    /\ subject_files = <<>>
    /\ results = <<>>
    /\ queries = <<>>
    /\ timestamp = 4
    /\ error = "none"
    /\ failed = 0
    /\ runs = 0
    /\ changes = 0
    /\ last_crawl = {}
    /\ report = {}
    /\ BotIdle
    /\ DagIdle

NextReport ==
    \/ send_slack_notification

SpecReport == InitReport /\ [][NextReport]_vars

-----------------------------------------------------------------------------
\* Statistics runs and notifications over a store that earlier statistics
\* runs have left any number of generations in.

PreloadedTimestamps == {1, 2, 3}

GenerationPartitions ==
    { k \in ReportPartitions : k.modality = "phone" /\ k.is_raw }

InitGenerations ==
    /\ study_dirs = { <<DataRoots[1], k.study_dir>> : k \in ReportPartitions }
    /\ subjects = << [study_id |-> "S1", subject_id |-> "A"],
                     [study_id |-> "S2", subject_id |-> "B"] >>
    /\ \E stored \in SUBSET (GenerationPartitions \X ReportFileNames) :
          \E written \in SUBSET PreloadedTimestamps :
             /\ fs = { PartitionPath(x[1], x[2]) : x \in stored }
             /\ files = { File(PartitionPath(x[1], x[2])) : x \in stored }
             /\ phoenix_file =
                   SetToBag({ PhoenixFile(x[1].study_id, x[1].subject_id,
                                          PartitionPath(x[1], x[2]),
                                          x[1].is_protected, x[1].is_raw,
                                          x[1].modality, 0) : x \in stored })
             /\ volume_statistics =
                   SetToBag(UNION { GenerationOf(stored, t) : t \in written })
    /\ clock = 3
    /\ pc = "idle"
    /\ params = <<>>
    /\ pending = {}
    /\ subject_files = <<>>
    /\ results = <<>>
    /\ queries = <<>>
    /\ timestamp = NoTimestamp
    /\ error = "none"
    /\ failed = 0
    /\ runs = 0
    /\ changes = 0
    /\ last_crawl = {}
    /\ report = {}
    /\ BotIdle
    /\ DagIdle

NextGenerations ==
    \/ StatisticsStart
    \/ StatisticsTaskReturns
    \/ StatisticsBuildQueries
    \/ ExecuteQuery
    \/ Finish
    \/ send_slack_notification

SpecGenerations == InitGenerations /\ [][NextGenerations]_vars

-----------------------------------------------------------------------------
\* The Slack bot and the scheduler, over an empty store.

InitIdle ==
    /\ study_dirs = {}
    /\ subjects = <<>>
    /\ fs = {}
    /\ files = {}
    /\ phoenix_file = EmptyBag
    /\ volume_statistics = EmptyBag
    /\ clock = 0
    /\ pc = "idle"
    /\ params = <<>>
    /\ pending = {}
    /\ subject_files = <<>>
    /\ results = <<>>
    /\ queries = <<>>
    /\ timestamp = NoTimestamp
    /\ error = "none"
    /\ failed = 0
    /\ runs = 0
    /\ changes = 0
    /\ last_crawl = {}
    /\ report = {}
    /\ BotIdle
    /\ DagIdle

NextBot ==
    \/ SlashCommand
    \/ plot_modality_wrapper
    \/ ping_function
    \/ ListenerReturns

SpecBot == InitIdle /\ [][NextBot]_vars

NextDag ==
    \/ DagRunStart
    \/ TaskStarts
    \/ TaskSucceeds
    \/ TaskFails
    \/ UpstreamFailed

SpecDag == InitIdle /\ [][NextDag]_vars

-----------------------------------------------------------------------------
\* States and vocabulary of the claims.

CrawlCompleted == pc = "crawl_persist" /\ queries = <<>>

InStatisticsRun == pc \in {"statistics_fanout", "statistics_persist"}

\* The subject ids whose statistics task has returned.
Processed == { params[i] : i \in DOMAIN params \ pending }

Stage(is_raw) == IF is_raw THEN "raw" ELSE "processed"

\* The rows of phoenix_file for a path.
RowsOf(path) == Select(phoenix_file, { r \in DOMAIN phoenix_file : r.file_path = path })

\* A file has exactly one row, and the row carries the given classification.
ClassifiedAs(f, study_id, subject_id, is_protected, is_raw) ==
    /\ BagCardinality(RowsOf(f)) = 1
    /\ \A r \in DOMAIN RowsOf(f) :
          /\ r.study_id = study_id
          /\ r.subject_id = subject_id
          /\ r.is_protected = is_protected
          /\ r.is_raw = is_raw
          /\ r.modality = f.modality

\* The files beneath the partition root of a registered (study, subject).
PartitionFiles(study_id, subject_id, c) ==
    LET study_root == get_study_roots(study_id, c.is_protected)
    IN  IF study_root = NoRoot THEN {}
        ELSE Beneath(study_root, Stage(c.is_raw), subject_id)

WithoutExtractedTimestamp(tbl) ==
    { [r EXCEPT !.extracted_timestamp = NoTimestamp] : r \in DOMAIN tbl }

\* C2: a crawl that completes after a completed crawl, with the disk, the
\* registry and the metadata unchanged in between, leaves the rows of
\* phoenix_file as the first crawl left them, extracted_timestamp apart: the
\* same number of rows and the same values in every other column.
C2_SecondCrawlLeavesRowsIdentical ==
    (CrawlCompleted /\ last_crawl # {}) =>
        \A before \in last_crawl :
            /\ BagCardinality(phoenix_file) = BagCardinality(before)
            /\ WithoutExtractedTimestamp(phoenix_file) = WithoutExtractedTimestamp(before)

\* A second crawl has completed over files the first crawl recorded, and has
\* refreshed their rows.
C2_Witness ==
    /\ CrawlCompleted
    /\ \E before \in last_crawl :
          /\ before # EmptyBag
          /\ \E r \in DOMAIN phoenix_file : r \notin DOMAIN before

\* C3, as stated: a subject's task that raises an unexpected error does not
\* abort the run; no run is ended by the permission error of one subject.
C3_SubjectErrorDoesNotAbortRun ==
    ~(pc = "idle" /\ error = "PermissionError")

\* The classification of a row.
Classification(r) ==
    <<r.study_id, r.subject_id, r.modality, r.is_protected, r.is_raw>>

\* The statement at the head of the batch is the upsert of a phoenix_file row,
\* and this step executes it.
UpsertStep ==
    /\ pc \in {"crawl_persist", "reconcile"}
    /\ queries # <<>>
    /\ Head(queries).table = "phoenix_file"
    /\ queries' = Tail(queries)

\* C4: phoenix_file holds at most one row per file path in every state, and
\* the upsert of a record leaves, for the path of the record, exactly the one
\* row that carries the record's classification, also when the path had a row
\* with another classification.
C4_OneRowPerPathReplacedOnUpsert ==
    /\ [](\A r \in DOMAIN phoenix_file : BagCardinality(RowsOf(r.file_path)) = 1)
    /\ [][UpsertStep =>
             Select(phoenix_file', { r \in DOMAIN phoenix_file' :
                                       r.file_path = Head(queries).row.file_path })
               = SetToBag({Head(queries).row})]_vars

\* A path that was stored under one classification has been upserted with
\* another and its single row carries a modality other than the directory
\* the file lies in.
C4_Witness ==
    /\ pc = "reconcile"
    /\ queries = <<>>
    /\ \E r \in DOMAIN phoenix_file :
          /\ r.modality # r.file_path.modality
          /\ BagCardinality(RowsOf(r.file_path)) = 1

\* The rows of volume_statistics that a step adds.
VolumeStatisticsAdded ==
    { r \in DOMAIN volume_statistics' :
        \/ r \notin DOMAIN volume_statistics
        \/ volume_statistics'[r] > volume_statistics[r] }

\* C5: a step of a crawl, statistics or notification run never modifies or
\* removes a row of volume_statistics; rows are added only by the persistence
\* step of a statistics run, every added row carries the timestamp of that
\* run, and the timestamp a run takes is carried by no row written before.
C5_StatisticsRowsAppendOnly ==
    [][/\ \A r \in DOMAIN volume_statistics :
             /\ r \in DOMAIN volume_statistics'
             /\ volume_statistics'[r] >= volume_statistics[r]
       /\ (VolumeStatisticsAdded # {}) => (pc = "statistics_persist")
       /\ \A r \in VolumeStatisticsAdded : r.statistics_timestamp = timestamp
       /\ (pc = "statistics_fanout" /\ pc' = "statistics_persist")
             => (timestamp' \notin StatisticsTimestamps)]_vars

\* Two statistics runs have written a generation each, and the second one has
\* written rows for what the first one already has rows for.
C5_Witness ==
    /\ pc = "statistics_persist"
    /\ queries = <<>>
    /\ \E r, q \in DOMAIN volume_statistics :
          /\ r.statistics_timestamp = timestamp
          /\ q.statistics_timestamp < timestamp
          /\ [q EXCEPT !.statistics_timestamp = timestamp] = r

\* C6: volume_statistics never holds two rows of one (study_id, subject_id,
\* is_raw, is_protected, modality, statistics_timestamp), and an insert of a
\* key the table already holds fails and leaves the table as it was.
C6_NoDuplicateKeyRejectedInsertKeepsRow ==
    /\ [](\A r \in DOMAIN volume_statistics :
             /\ volume_statistics[r] = 1
             /\ \A q \in DOMAIN volume_statistics :
                   VolumeStatisticsKey(q) = VolumeStatisticsKey(r) => q = r)
    /\ [][(/\ pc = "statistics_persist"
           /\ queries # <<>>
           /\ queries' = Tail(queries)
           /\ \E r \in DOMAIN volume_statistics :
                 VolumeStatisticsKey(r) = VolumeStatisticsKey(Head(queries).row))
             => (/\ volume_statistics' = volume_statistics
                 /\ failed' = failed + 1)]_vars

\* A statistics run has had an insert rejected: the subject is registered
\* twice and both tasks computed the same rows.
C6_Witness ==
    /\ pc = "statistics_persist"
    /\ failed > 0
    /\ volume_statistics # EmptyBag

\* The names a modality directory has on disk or in the store.
Modalities ==
    ({ f.modality : f \in Paths } \ {""}) \cup { r.modality : r \in DOMAIN phoenix_file }

\* The rows of a list of results for a (subject, modality, combination).
BaseRows(rows, subject_id, modality, c) ==
    { i \in DOMAIN rows : /\ rows[i].subject_id = subject_id
                          /\ rows[i].modality = modality
                          /\ rows[i].is_protected = c.is_protected
                          /\ rows[i].is_raw = c.is_raw }

\* The store holds a file of the subject with this modality and combination.
HoldsFile(subject_id, modality, c) ==
    \E r \in DOMAIN phoenix_file : /\ r.subject_id = subject_id
                                   /\ r.modality = modality
                                   /\ r.is_protected = c.is_protected
                                   /\ r.is_raw = c.is_raw

\* C7: process_subject returns a base row for a (modality, is_protected,
\* is_raw) exactly when the store holds a file of the subject with that
\* modality, protection and stage, and never a row with files_count 0; the
\* results a statistics run has gathered hold such a row exactly for the
\* subjects whose task has returned.
C7_BaseRowIffFilesExist ==
    /\ \A subject_id \in Range(SubjectOrder) :
          LET rows == process_subject(subject_id)
          IN  /\ \A i \in DOMAIN rows : rows[i].files_count > 0
              /\ \A modality \in Modalities, c \in Range(Combinations) :
                    (BaseRows(rows, subject_id, modality, c) # {})
                      <=> HoldsFile(subject_id, modality, c)
    /\ pc = "statistics_fanout" =>
          /\ \A i \in DOMAIN results : results[i].files_count > 0
          /\ \A subject_id \in Range(SubjectOrder), modality \in Modalities,
                c \in Range(Combinations) :
                (BaseRows(results, subject_id, modality, c) # {})
                  <=> (subject_id \in Processed /\ HoldsFile(subject_id, modality, c))

\* Every task of a statistics run has returned; one subject has a row for a
\* combination of a modality and none for another combination of it, and
\* another subject has rows of another modality only.
C7_Witness ==
    /\ pc = "statistics_fanout"
    /\ pending = {}
    /\ \E s, t \in Range(SubjectOrder), m, n \in Modalities, c, d \in Range(Combinations) :
          /\ s # t
          /\ m # n
          /\ BaseRows(results, s, m, c) # {}
          /\ BaseRows(results, s, m, d) = {}
          /\ BaseRows(results, t, n, d) # {}
          /\ \A e \in Range(Combinations) : BaseRows(results, t, m, e) = {}

\* The files of the protected raw phone partition of a subject that carry a
\* mindlamp_type.
TaggedPhoneFiles(subject_id, value) ==
    { r \in DOMAIN phoenix_file : /\ r.subject_id = subject_id
                                  /\ r.modality = "phone"
                                  /\ r.is_protected
                                  /\ r.is_raw
                                  /\ JsonText(r.metadata, "mindlamp_type") = value }

\* C8, as stated: when the protected raw phone partition of a subject holds
\* files tagged sensor and files tagged activity, the results of a statistics
\* run hold rows phone, phone_sensor and phone_activity for that partition, and
\* the files_count of phone_sensor plus that of phone_activity is at most the
\* files_count of phone.
C8_SubTypeCountsWithinPhoneCount ==
    pc = "statistics_fanout" =>
        \A subject_id \in Processed :
            (TaggedPhoneFiles(subject_id, "sensor") # {}
                /\ TaggedPhoneFiles(subject_id, "activity") # {})
            => LET c == Combinations[1]
                   phone == BaseRows(results, subject_id, "phone", c)
                   sensor == BaseRows(results, subject_id, "phone_sensor", c)
                   activity == BaseRows(results, subject_id, "phone_activity", c)
               IN  /\ phone # {}
                   /\ sensor # {}
                   /\ activity # {}
                   /\ \A i \in phone, j \in sensor, k \in activity :
                         results[j].files_count + results[k].files_count
                           <= results[i].files_count

\* C9: while a statistics run persists, every statement of its batch and
\* every row it writes carries the one timestamp the run took, whichever
\* subject the row is of and whatever order the tasks returned in.
C9_OneTimestampPerStatisticsRun ==
    /\ [](pc = "statistics_persist" =>
             \A i \in DOMAIN queries :
                 queries[i].row.statistics_timestamp = timestamp)
    /\ [][pc = "statistics_persist" =>
             /\ timestamp' = timestamp
             /\ \A r \in VolumeStatisticsAdded :
                   /\ r.statistics_timestamp = timestamp
                   /\ r = Head(queries).row]_vars

\* A statistics run has written rows of two subjects, all with its timestamp.
C9_Witness ==
    /\ pc = "statistics_persist"
    /\ queries = <<>>
    /\ \E r, q \in DOMAIN volume_statistics :
          /\ r.subject_id # q.subject_id
          /\ r.statistics_timestamp = timestamp
          /\ q.statistics_timestamp = timestamp

\* C10, as stated: for every subject a crawl is about to parse,
\* parse_subject_files does not raise, and it returns the files of the
\* modality directories of exactly the combinations whose subject directory
\* exists, a study directory absent from every data root included.
C10_MissingDirectoryContributesNoFiles ==
    pc = "crawl_fanout" =>
        \A i \in pending :
            LET subject_id == params[i]
                study_id == get_subject_study_id(subject_id)
                result == parse_subject_files(subject_id, clock)
            IN  /\ result.raises = "none"
                /\ { pair[1].file_path : pair \in Range(result.files) }
                     = UNION { { f \in PartitionFiles(study_id, subject_id, c) :
                                   f.modality # "" } : c \in Range(Combinations) }

\* The subjects of the batch that the store resolves to no study.
WithoutStudy == { s \in Range(params) : get_subject_study_id(s) = None }

\* C11: for a subject id that resolves to no study, parse_subject_files
\* returns an empty list without raising; the batch of the crawl holds no
\* statement and the store no row for it; and the files in the modality
\* directories of the other subjects of the batch are in the batch or stored.
C11_UnknownSubjectFailsClosed ==
    /\ pc = "crawl_fanout" =>
          /\ \A i \in pending :
                params[i] \in WithoutStudy =>
                    parse_subject_files(params[i], clock)
                      = [raises |-> "none", files |-> <<>>]
          /\ \A i \in DOMAIN subject_files :
                subject_files[i][2].subject_id \notin WithoutStudy
    /\ pc = "crawl_persist" =>
          /\ \A s \in WithoutStudy :
                /\ \A i \in DOMAIN queries :
                      queries[i].row.file_path.subject # s
                /\ \A r \in DOMAIN phoenix_file : r.subject_id # s
          /\ \A s \in Range(params) \ WithoutStudy, c \in Range(Combinations) :
                \A f \in PartitionFiles(get_subject_study_id(s), s, c) :
                    f.modality # "" =>
                        \/ \E i \in DOMAIN queries : queries[i].row.file_path = f
                        \/ RowsOf(f) # EmptyBag

\* A crawl has completed over a batch with a subject that resolves to no
\* study and has files on disk, and has stored the files of another subject.
C11_Witness ==
    /\ CrawlCompleted
    /\ \E s \in WithoutStudy : \E f \in fs : f.subject = s /\ f.modality # ""
    /\ \E r \in DOMAIN phoenix_file : r.subject_id \notin WithoutStudy

\* The exceptions of a configuration that cannot be used: no network for a
\* study (ValueError), no data root that holds the study (TypeError).
ConfigurationErrors == {"ValueError", "TypeError"}

\* C12, as stated: a crawl run is aborted only by a configuration-level
\* failure, and then before any subject has been processed and before
\* anything has been written to the store.
C12_OnlyConfigurationFailureAbortsBeforeWork ==
    [][(pc = "crawl_fanout" /\ pc' = "idle") =>
          /\ error' \in ConfigurationErrors
          /\ pending = DOMAIN params
          /\ subject_files = <<>>
          /\ files' = files
          /\ phoenix_file' = phoenix_file]_vars

\* The three tables a run writes.
store == <<files, phoenix_file, volume_statistics>>

\* C13: in a crawl run and in a statistics run, the store is written only
\* after every task has returned and been merged, and only by the coordinator
\* executing the statements of the batch one after the other: a step of the
\* fan-out leaves the store as it is, the persistence starts with no task
\* pending and with one statement per merged result, and a step that
\* changes the store executes the head of the batch.
C13_WritesOnlyAfterFanIn ==
    /\ [](pc \in {"crawl_persist", "statistics_persist"} => pending = {})
    /\ [][/\ pc \in {"crawl_fanout", "statistics_fanout"} => store' = store
          /\ (pc \in {"crawl_persist", "statistics_persist"} /\ store' # store)
                => (queries # <<>> /\ queries' = Tail(queries))
          /\ (pc = "crawl_fanout" /\ pc' = "crawl_persist")
                => Len(queries') = 2 * Len(subject_files)
          /\ (pc = "statistics_fanout" /\ pc' = "statistics_persist")
                => Len(queries') = Len(results)]_vars

\* A statistics run over two tasks is part-way through its batch, after a
\* crawl has written the files the rows count.
C13_Witness ==
    /\ pc = "statistics_persist"
    /\ Len(params) >= 2
    /\ Len(queries) = 1
    /\ phoenix_file # EmptyBag
    /\ \E r \in DOMAIN volume_statistics : r.statistics_timestamp = timestamp

\* A list as a collection: every element with the number of its occurrences.
SeqToBag(seq) ==
    [ x \in Range(seq) |-> Cardinality({ i \in DOMAIN seq : seq[i] = x }) ]

\* The tables and the failure count as one value.
StoreState ==
    [files |-> files, phoenix_file |-> phoenix_file,
     volume_statistics |-> volume_statistics, failed |-> failed]

\* The store a statement leaves when it is executed on a given store.
ExecuteOn(st, query) ==
    CASE query.table = "files" ->
            [st EXCEPT !.files = File_to_sql(st.files, query.row).table]
      [] query.table = "phoenix_file" ->
            IF /\ \E i \in DOMAIN subjects :
                     /\ subjects[i].study_id = query.row.study_id
                     /\ subjects[i].subject_id = query.row.subject_id
               /\ \E f \in st.files : f.file_path = query.row.file_path
            THEN [st EXCEPT !.phoenix_file =
                     Select(st.phoenix_file,
                            { r \in DOMAIN st.phoenix_file :
                                r.file_path # query.row.file_path })
                       (+) SetToBag({query.row})]
            ELSE [st EXCEPT !.failed = st.failed + 1]
      [] query.table = "volume_statistics" ->
            LET e == VolumeStatistics_to_sql(st.volume_statistics, query.row)
            IN  IF e.ok THEN [st EXCEPT !.volume_statistics = e.table]
                ELSE [st EXCEPT !.failed = st.failed + 1]

\* The store a batch leaves when its statements are executed in order.
RECURSIVE ExecuteAllOn(_, _)
ExecuteAllOn(st, batch) ==
    IF batch = <<>> THEN st
    ELSE ExecuteAllOn(ExecuteOn(st, Head(batch)), Tail(batch))

\* The results of the tasks, merged in the order of the subject list.
CrawlResultsInListOrder ==
    Flatten([ i \in DOMAIN params |-> parse_subject_files(params[i], clock).files ])

StatisticsResultsInListOrder ==
    Flatten([ i \in DOMAIN params |-> process_subject(params[i]) ])

\* C14: whatever order the tasks return in, the merged batch is the same
\* collection as the results merged in the order of the subject list, the
\* store the batch leaves is the store the batch in list order leaves, and
\* every step of the persistence keeps to that outcome.
C14_OutcomeIndependentOfTaskOrder ==
    /\ []((pc = "crawl_fanout" /\ pending = {}) =>
             SeqToBag(subject_files) = SeqToBag(CrawlResultsInListOrder))
    /\ []((pc = "statistics_fanout" /\ pending = {}) =>
             SeqToBag(results) = SeqToBag(StatisticsResultsInListOrder))
    /\ [][/\ (pc = "crawl_fanout" /\ pc' = "crawl_persist") =>
                ExecuteAllOn(StoreState, queries')
                  = ExecuteAllOn(StoreState, ImportQueries(CrawlResultsInListOrder))
          /\ (pc = "statistics_fanout" /\ pc' = "statistics_persist") =>
                ExecuteAllOn(StoreState, queries')
                  = ExecuteAllOn(StoreState,
                        StatisticsQueries(StatisticsResultsInListOrder, timestamp'))
          /\ (pc \in {"crawl_persist", "statistics_persist"} /\ pc' = pc) =>
                ExecuteAllOn(StoreState', queries') = ExecuteAllOn(StoreState, queries)]_vars

\* A run has merged the results of two subjects in the other order than the
\* subject list, and has persisted them.
C14_Witness ==
    /\ pc \in {"crawl_persist", "statistics_persist"}
    /\ queries = <<>>
    /\ \/ /\ pc = "crawl_persist"
          /\ subject_files # CrawlResultsInListOrder
          /\ \E r, q \in DOMAIN phoenix_file : r.subject_id # q.subject_id
       \/ /\ pc = "statistics_persist"
          /\ results # StatisticsResultsInListOrder
          /\ \E r, q \in DOMAIN volume_statistics :
                /\ r.subject_id # q.subject_id
                /\ r.statistics_timestamp = timestamp
                /\ q.statistics_timestamp = timestamp

\* The subject a statement of the reconciler is for.
SubjectOf(query) == query.row.file_path.subject

\* C15: when the batches of two disjoint sets of subjects are executed with
\* their statements interleaved, files and phoenix_file end as they do when
\* the first batch is executed and then the second, and a statement of one
\* subject changes no row of another subject.
C15_DisjointBatchesCommute ==
    [][/\ (pc = "idle" /\ pc' = "reconcile") =>
             ExecuteAllOn(StoreState', queries')
               = ExecuteAllOn(StoreState', ImportQueries(subject_files'))
       /\ (pc = "reconcile" /\ pc' = "reconcile") =>
             /\ ExecuteAllOn(StoreState', queries') = ExecuteAllOn(StoreState, queries)
             /\ \A f \in files :
                   f.file_path.subject # SubjectOf(Head(queries)) => f \in files'
             /\ \A r \in DOMAIN phoenix_file :
                   r.file_path.subject # SubjectOf(Head(queries)) =>
                       /\ r \in DOMAIN phoenix_file'
                       /\ phoenix_file'[r] = phoenix_file[r]]_vars

\* The two batches are both part-way through: each has a row in the store and
\* a statement still to come.
C15_Witness ==
    /\ pc = "reconcile"
    /\ runs = 1
    /\ \E s, t \in Range(params) :
          /\ s # t
          /\ \E f \in files : f.file_path.subject = s
          /\ \E f \in files : f.file_path.subject = t
          /\ \E i \in DOMAIN queries : SubjectOf(queries[i]) = s
          /\ \E i \in DOMAIN queries : SubjectOf(queries[i]) = t

\* files and phoenix_file of a store, extracted_timestamp apart.
ReconciledTables(st) ==
    [files |-> st.files,
     phoenix_file |-> [ r \in WithoutExtractedTimestamp(st.phoenix_file) |->
                          BagCardinality(Select(st.phoenix_file,
                              { x \in DOMAIN st.phoenix_file :
                                  [x EXCEPT !.extracted_timestamp = NoTimestamp] = r })) ]]

\* The batch of a crawl started again later over the same disk.
RerunQueries ==
    ImportQueries(Flatten([ i \in DOMAIN params |->
                              parse_subject_files(params[i], clock + 1).files ]))

\* C16: at every point of the write batch of a crawl, a crawl started again
\* from there over the same disk leaves files and phoenix_file as the rest of
\* the batch would have left them, extracted_timestamp apart; every step of
\* the batch keeps to that outcome; no path ever has two rows; and a crawl
\* that completes, interrupted before or not, leaves for every enumerated file
\* the row of its present classification.
C16_RerunAfterInterruptionConverges ==
    /\ [](pc = "crawl_persist" =>
             ReconciledTables(ExecuteAllOn(StoreState, RerunQueries))
               = ReconciledTables(ExecuteAllOn(StoreState, queries)))
    /\ [](\A r \in DOMAIN phoenix_file : BagCardinality(RowsOf(r.file_path)) = 1)
    /\ [](CrawlCompleted =>
             \A i \in DOMAIN subject_files :
                 /\ subject_files[i][1] \in files
                 /\ RowsOf(subject_files[i][2].file_path)
                      = SetToBag({subject_files[i][2]}))
    /\ [][(pc = "crawl_persist" /\ pc' = "crawl_persist") =>
             ExecuteAllOn(StoreState', queries') = ExecuteAllOn(StoreState, queries)]_vars

\* A crawl has completed over several files after an earlier one was
\* interrupted.
C16_Witness ==
    /\ CrawlCompleted
    /\ changes > 0
    /\ \E r, q \in DOMAIN phoenix_file : r.file_path # q.file_path

\* The paths that have a row in phoenix_file.
StoredPaths(tbl) == { r.file_path : r \in DOMAIN tbl }

\* The rows of phoenix_file with the subject, modality and flags of a row.
SamePartition(r) ==
    Select(phoenix_file, { x \in DOMAIN phoenix_file :
                             /\ x.subject_id = r.subject_id
                             /\ x.modality = r.modality
                             /\ x.is_protected = r.is_protected
                             /\ x.is_raw = r.is_raw })

\* C17: no step removes a path from files or from phoenix_file; the row of a
\* file that is no longer on disk keeps its classification; and a statistics
\* run counts every stored row of a subject, on disk or not, in the base row
\* of its modality and combination.
C17_RowsOutliveTheirFiles ==
    /\ [][/\ StoredPaths(phoenix_file) \subseteq StoredPaths(phoenix_file')
          /\ { f.file_path : f \in files } \subseteq { f.file_path : f \in files' }
          /\ \A r \in DOMAIN phoenix_file :
                r.file_path \notin fs =>
                    \E q \in DOMAIN phoenix_file' :
                        /\ q.file_path = r.file_path
                        /\ Classification(q) = Classification(r)]_vars
    /\ [](pc = "statistics_fanout" =>
             \A r \in DOMAIN phoenix_file :
                 r.subject_id \in Processed =>
                     \E i \in BaseRows(results, r.subject_id, r.modality,
                                       [is_protected |-> r.is_protected,
                                        is_raw |-> r.is_raw]) :
                         results[i].files_count = BagCardinality(SamePartition(r)))

\* A file was removed from disk, a later crawl refreshed another file, and a
\* statistics run has written the row that counts the removed one.
C17_Witness ==
    /\ pc = "statistics_persist"
    /\ queries = <<>>
    /\ \E r, q \in DOMAIN phoenix_file :
          /\ r.file_path \notin fs
          /\ q.extracted_timestamp > r.extracted_timestamp
          /\ \E v \in DOMAIN volume_statistics :
                /\ v.statistics_timestamp = timestamp
                /\ v.subject_id = r.subject_id
                /\ v.modality = r.modality
                /\ v.is_protected = r.is_protected
                /\ v.is_raw = r.is_raw
                /\ v.files_count = BagCardinality(SamePartition(r))

\* The two generations a notification compares.
LatestTimestamp == get_most_recent_statistics_timestamp

PreviousTimestamp == get_earlier_statistics_timestamp(LatestTimestamp)

\* A notification has run over a store that holds two generations.
Notified ==
    /\ runs > 0
    /\ LatestTimestamp # NoTimestamp
    /\ PreviousTimestamp # NoTimestamp

\* The rows of a generation for a modality and a network, every partition.
NetworkRows(statistics_timestamp, modality, network) ==
    Select(volume_statistics,
           { r \in DOMAIN volume_statistics :
               /\ r.statistics_timestamp = statistics_timestamp
               /\ r.modality = modality
               /\ get_study_network(r.study_id) = network })

\* C18, as stated: the report is produced, and for each of the two networks
\* and every modality present in phoenix_file it holds an entry whose
\* file-count delta is the sum of files_count over the network's rows of the
\* modality at T2 minus the same sum at T1, and whose size delta is the same
\* difference of the sums of files_size_mb.
C18_ReportedDeltaIsDifferenceOfSums ==
    Notified =>
        /\ report # {}
        /\ \A p \in report :
              \A n \in Range(Networks), m \in Range(get_all_modalities) :
                  \E e \in p.entries :
                      /\ e.network = n
                      /\ e.modality = m
                      /\ e.delta_files
                           = SumFilesCount(NetworkRows(LatestTimestamp, m, n))
                               - SumFilesCount(NetworkRows(PreviousTimestamp, m, n))
                      /\ e.delta_size
                           = SumFilesSize(NetworkRows(LatestTimestamp, m, n))
                               - SumFilesSize(NetworkRows(PreviousTimestamp, m, n))

\* C19, as stated: a report carries the warning exactly when one of its
\* entries has a file-count delta of zero or a size delta of zero, and a
\* network and a modality whose delta between the two generations is zero
\* always have the warning raised.
C19_ZeroDeltaAlwaysFlagged ==
    Notified =>
        /\ \A p \in report :
              p.issue_detected
                <=> \E e \in p.entries : e.delta_files = 0 \/ e.delta_size = 0
        /\ (\E n \in Range(Networks), m \in Range(get_all_modalities) :
               LET e == ReportEntry(n, m, LatestTimestamp, PreviousTimestamp)
               IN  e.raises = "none" /\ (e.delta_files = 0 \/ e.delta_size = 0))
              => (report # {} /\ \A p \in report : p.issue_detected)

\* C20, as stated: when a crawl run ends, it has reported the number of files
\* it reconciled and the number of failures.
C20_CrawlReportsProcessedAndFailed ==
    [][(pc \in {"crawl_fanout", "crawl_persist"} /\ pc' = "idle") =>
          /\ \E i \in DOMAIN CrawlLog :
                "found" \in DOMAIN CrawlLog[i]
          /\ \E i \in DOMAIN CrawlLog :
                "failed" \in DOMAIN CrawlLog[i]]_vars

\* C21, as stated: every sub-type row phone_<value> the tasks of a statistics
\* run have returned is tagged protected and raw, and its files_count is the
\* number of the subject's protected raw phone files whose mindlamp_type
\* equals the value: no file of another partition is counted, and no file
\* whose mindlamp_type only contains the value.
C21_SubTypeRowCountsExactMatches ==
    pc = "statistics_fanout" =>
        \A i \in DOMAIN results, value \in {"sensor", "activity"} :
            results[i].modality = SubTypeModality("phone", value)
            => /\ results[i].is_protected
               /\ results[i].is_raw
               /\ results[i].files_count
                    = Cardinality(TaggedPhoneFiles(results[i].subject_id, value))

\* The stored rows of a partition of a subject's modality under a study.
StoredRows(study_id, subject_id, modality, is_protected, is_raw) ==
    { r \in DOMAIN phoenix_file : /\ r.study_id = study_id
                                  /\ r.subject_id = subject_id
                                  /\ r.modality = modality
                                  /\ r.is_protected = is_protected
                                  /\ r.is_raw = is_raw }

\* The sizes of the files rows that a set of phoenix_file rows joins, summed.
RECURSIVE JoinedSize(_)
JoinedSize(rows) ==
    IF rows = {} THEN 0
    ELSE LET r == CHOOSE x \in rows : TRUE
             joined == { f \in files : f.file_path = r.file_path }
         IN  (IF joined = {} THEN 0
              ELSE (CHOOSE f \in joined : TRUE).file_size_mb)
             + JoinedSize(rows \ {r})

RECURSIVE FilesCountSum(_)
FilesCountSum(rows) ==
    IF rows = <<>> THEN 0 ELSE Head(rows).files_count + FilesCountSum(Tail(rows))

\* C22: every base row the tasks of a statistics run have returned has as
\* files_count the number of stored rows of its (study, subject, modality,
\* is_protected, is_raw) and as files_size_mb the sum of the sizes of the
\* files rows those rows join; and the files_count of the base rows
\* process_subject returns for a modality add up to the number of stored
\* rows of the subject with that modality.
C22_BaseRowCountsItsPartition ==
    /\ pc = "statistics_fanout" =>
          \A i \in DOMAIN results :
              results[i].modality \in Modalities
              => LET rows == StoredRows(results[i].study_id, results[i].subject_id,
                                        results[i].modality, results[i].is_protected,
                                        results[i].is_raw)
                 IN  /\ results[i].files_count = Cardinality(rows)
                     /\ results[i].files_size_mb = JoinedSize(rows)
    /\ \A subject_id \in Range(SubjectOrder), modality \in Modalities :
          FilesCountSum(SelectSeq(process_subject(subject_id),
                                  LAMBDA row : row.modality = modality))
            = Cardinality({ r \in DOMAIN phoenix_file :
                              r.subject_id = subject_id /\ r.modality = modality })

\* Every task of a statistics run has returned, and a subject has base rows
\* for two partitions of one modality, one of them counting two files of
\* different sizes.
C22_Witness ==
    /\ pc = "statistics_fanout"
    /\ pending = {}
    /\ \E i, j \in DOMAIN results :
          /\ results[i].modality \in Modalities
          /\ results[i].subject_id = results[j].subject_id
          /\ results[i].modality = results[j].modality
          /\ results[i].is_raw # results[j].is_raw
          /\ results[i].files_count = 2
          /\ results[i].files_size_mb = 3
          /\ results[j].files_count = 1

\* C23: the upsert of a phoenix_file record whose path already has a row
\* leaves for that path one row, with the path unchanged and every other
\* column that of the record; the record of a crawl carries the empty
\* metadata map, so metadata stored on the row is replaced by it; and the
\* rows of every other path are left as they were.
C23_UpsertOverwritesRowOfItsPathOnly ==
    [][(UpsertStep /\ RowsOf(Head(queries).row.file_path) # EmptyBag) =>
          LET record == Head(queries).row
          IN  /\ Select(phoenix_file', { r \in DOMAIN phoenix_file' :
                                           r.file_path = record.file_path })
                   = SetToBag({record})
              /\ (pc = "crawl_persist") => (record.metadata = {})
              /\ Select(phoenix_file', { r \in DOMAIN phoenix_file' :
                                           r.file_path # record.file_path })
                   = Select(phoenix_file, { r \in DOMAIN phoenix_file :
                                              r.file_path # record.file_path })]_vars

\* A crawl that follows the tagging of the rows of an earlier crawl is
\* persisting: the row of one path has been refreshed and carries the empty
\* map, the row of another path still carries its tag.
C23_Witness ==
    /\ pc = "crawl_persist"
    /\ \E r, q \in DOMAIN phoenix_file :
          /\ r.file_path # q.file_path
          /\ r.modality = "phone"
          /\ r.extracted_timestamp = clock
          /\ r.metadata = {}
          /\ q.extracted_timestamp < clock
          /\ q.metadata # {}

\* The known (study_id, subject_id) pairs in the order of the work list.
PairOrder ==
    Flatten([ i \in DOMAIN SubjectOrder |->
                SelectSeq(subjects, LAMBDA r : r.subject_id = SubjectOrder[i]) ])

\* C24, as stated: the work list of a crawl run and of a statistics run holds
\* one task per known (study_id, subject_id) pair, and every phoenix_file
\* record and every statistics row a task produces carries the study_id of
\* the pair the task stands for.
C24_OneTaskPerPairRowsCarryItsStudy ==
    (pc \in {"crawl_fanout", "statistics_fanout"}) =>
        /\ Len(params) = Len(PairOrder)
        /\ \A k \in DOMAIN params :
              /\ params[k] = PairOrder[k].subject_id
              /\ (pc = "crawl_fanout") =>
                    LET produced == parse_subject_files(params[k], clock).files
                    IN  \A j \in DOMAIN produced :
                            produced[j][2].study_id = PairOrder[k].study_id
              /\ (pc = "statistics_fanout") =>
                    LET produced == process_subject(params[k])
                    IN  \A j \in DOMAIN produced :
                            produced[j].study_id = PairOrder[k].study_id

\* A data root holds the directory of a study for a protection level.
StudyDirExists(root, level, study_dir) ==
    IF level = "PROTECTED" THEN <<root, study_dir>> \in study_dirs
    ELSE \E f \in fs : f.root = root /\ f.level = level /\ f.study_dir = study_dir

\* C25, as stated: for every task of a crawl and every (is_protected, is_raw),
\* when a configured data root holds the study's directory for the requested
\* protection level, the directory the task looks in is
\* <root>/<PROTECTED|GENERAL>/<Network><StudyId>/<raw|processed>/<subject_id>
\* with the level following is_protected, the network in sentence case, and
\* a root under which the study directory exists for that level.
C25_CrawledDirectoryUnderRootOfRequestedLevel ==
    pc = "crawl_fanout" =>
        \A k \in DOMAIN params, c \in Range(Combinations) :
            LET study_id == get_subject_study_id(params[k])
                level == IF c.is_protected THEN "PROTECTED" ELSE "GENERAL"
                study_dir == StudyDirName(SentenceCase(get_study_network(study_id)),
                                          study_id)
                study_root == get_study_roots(study_id, c.is_protected)
            IN  (\E root \in Range(DataRoots) : StudyDirExists(root, level, study_dir))
                => /\ study_root # NoRoot
                   /\ study_root.level = level
                   /\ study_root.study_dir = study_dir
                   /\ study_root.root \in Range(DataRoots)
                   /\ StudyDirExists(study_root.root, level, study_dir)
                   /\ \A f \in Beneath(study_root,
                                       IF c.is_raw THEN "raw" ELSE "processed",
                                       params[k]) :
                         /\ f.stage = (IF c.is_raw THEN "raw" ELSE "processed")
                         /\ f.subject = params[k]

\* A step of send_slack_notification.
NotificationStep ==
    /\ pc = "idle"
    /\ pc' = "idle"
    /\ runs' = runs + 1

\* C26: a notification over a store of two or more generations finds both
\* timestamps, and the report it produces compares the greatest stored
\* statistics_timestamp with the greatest stored one below it, so that no
\* stored generation lies between the two.
C26_ComparesTwoMostRecentGenerations ==
    [][(NotificationStep /\ Cardinality(StatisticsTimestamps) >= 2) =>
          /\ get_earlier_statistics_timestamp(get_most_recent_statistics_timestamp)
               # NoTimestamp
          /\ (error' = "none") =>
                /\ report' # {}
                /\ \A p \in report' :
                      /\ p.latest_timestamp \in StatisticsTimestamps
                      /\ \A t \in StatisticsTimestamps : t <= p.latest_timestamp
                      /\ p.previous_timestamp \in StatisticsTimestamps
                      /\ p.previous_timestamp < p.latest_timestamp
                      /\ ~ \E t \in StatisticsTimestamps :
                             p.previous_timestamp < t /\ t < p.latest_timestamp]_vars

\* A report has been produced over a store that holds a generation older
\* than the two compared, the latest of which a statistics run has written
\* since the start.
C26_Witness ==
    /\ pc = "idle"
    /\ error = "none"
    /\ \E p \in report :
          /\ p.latest_timestamp = get_most_recent_statistics_timestamp
          /\ p.latest_timestamp > 3
          /\ \E t \in StatisticsTimestamps : t < p.previous_timestamp

\* C27, as stated: the merged results of a statistics run hold no two rows of
\* one (study_id, subject_id, is_raw, is_protected, modality), so that no
\* insert of the batch is rejected by the primary key of volume_statistics.
C27_NoTwoResultsOfOneKey ==
    InStatisticsRun =>
        /\ \A i, j \in DOMAIN results :
              (i # j) => (Classification(results[i]) # Classification(results[j])
                            \/ results[i].is_raw # results[j].is_raw)
        /\ failed = 0

\* The texts of the responses of a handler, in order.
Responses ==
    LET calls == SelectSeq(events, LAMBDA e : e.call = "respond")
    IN  [ i \in DOMAIN calls |-> calls[i].with ]

\* C28, as stated: the listener of every /plot command, whatever its text,
\* acknowledges the command first and answers it exactly once: with the usage text when it has fewer
\* than two arguments or a second argument other than count and size, with
\* an error message when the modality is invalid, and else with the
\* confirmation of the upload of a plot, drawn for all networks when no
\* network is given and for 14 days when no number of days is given.
C28_PlotAcknowledgedAndAnsweredOnce ==
    (command.command = "/plot" /\ events # <<>>) =>
        LET parts == split(command.text)
        IN  /\ Head(events) = Ack
            /\ Len(Responses) = 1
            /\ IF Len(parts) < 2 THEN Responses[1] = Usage
               ELSE IF parts[2] \notin {"count", "size"} THEN Responses[1] = Usage
               ELSE IF parts[1] \notin DOMAIN modality_colors_map
               THEN Responses[1][1] = "Error: Invalid modality: "
               ELSE /\ Responses[1][1] = "Uploaded plot for "
                    /\ \E e \in Range(events) :
                          /\ e.call = "files_upload_v2"
                          /\ e.with[1].modality = parts[1]
                          /\ e.with[1].measure = parts[2]
                          /\ (Len(parts) = 2) => (e.with[1].network_id = "AllNetworks")
                          /\ (Len(parts) <= 3) => (e.with[1].num_days = 14)

\* The order the tasks of the pipeline are declared to run in.
TaskOrder ==
    <<"print_info", "import_metadata", "import_files", "compute_statistics",
      "send_notification">>

\* A task instance has been started in the execution.
Started(task_id) == try_number[task_id] > 0

\* C29: in every execution a task is started only while every task before
\* it in the order print_info, import_metadata, import_files,
\* compute_statistics, send_notification has succeeded, a task is attempted
\* at most once plus 3 retries, and a task below a task that has not
\* succeeded is never started.
C29_TasksRunInOrderAfterSuccess ==
    /\ [](\A i, j \in DOMAIN TaskOrder :
            (i < j /\ Started(TaskOrder[j])) => (task_state[TaskOrder[i]] = "success"))
    /\ [](\A t \in TaskIds :
            /\ try_number[t] <= 1 + 3
            /\ (task_state[t] = "failed") => (try_number[t] = 1 + 3))
    /\ [][\A t \in TaskIds :
            (try_number'[t] > try_number[t]) =>
                /\ try_number'[t] = try_number[t] + 1
                /\ task_state'[t] = "running"
                /\ \A i, j \in DOMAIN TaskOrder :
                      (i < j /\ TaskOrder[j] = t)
                         => (task_state[TaskOrder[i]] = "success")]_vars

\* The last task of a second execution has succeeded after a task of that
\* execution was retried 3 times.
C29_Witness ==
    /\ dag_run > 1
    /\ task_state["send_notification"] = "success"
    /\ \E t \in TaskIds : try_number[t] = 4

\* C30: the batch a crawl builds holds, for the i-th enumerated file, the
\* upsert into files at position 2i - 1 and the upsert into phoenix_file of
\* the same path at position 2i; so whenever the upsert of a phoenix_file row
\* is at the head of the batch, files holds the row of its path, and the
\* upsert is not rejected.
C30_FilesUpsertPrecedesPhoenixFileUpsert ==
    /\ [][(pc = "crawl_fanout" /\ pc' = "crawl_persist") =>
             /\ Len(queries') = 2 * Len(subject_files)
             /\ \A i \in DOMAIN subject_files :
                   /\ queries'[2 * i - 1] = [table |-> "files",
                                             row |-> subject_files[i][1]]
                   /\ queries'[2 * i] = [table |-> "phoenix_file",
                                         row |-> subject_files[i][2]]
                   /\ subject_files[i][1].file_path = subject_files[i][2].file_path]_vars
    /\ [](pc = "crawl_persist" /\ queries # <<>> /\ Head(queries).table = "phoenix_file"
            => \E f \in files : f.file_path = Head(queries).row.file_path)
    /\ [][(pc = "crawl_persist" /\ UpsertStep) => failed' = failed]_vars

\* A crawl is part-way through its batch: the next statement writes the
\* first phoenix_file row of a path whose files row the statement before
\* has written, and statements of other files follow.
C30_Witness ==
    /\ pc = "crawl_persist"
    /\ Len(queries) >= 3
    /\ Len(queries) < 2 * Len(subject_files)
    /\ Head(queries).table = "phoenix_file"
    /\ RowsOf(Head(queries).row.file_path) = EmptyBag
    /\ \E f \in files : f.file_path = Head(queries).row.file_path

====
